---- MODULE Spec2Model ----
(***************************************************************************)
(* Prompt Factory / Orion: the App component's state (history store,       *)
(* optimize handler, auth flag) together with the service layer's error    *)
(* classifier, as a state machine.                                         *)
(*                                                                         *)
(* src/App.tsx holds two versions of the component; src/unnamed/part_010   *)
(* is a third.  The variable `variant` selects which one is running:       *)
(*   "A"   src/App.tsx lines 64-327   (auth gate, RE-OPTIMIZE)             *)
(*   "B"   src/App.tsx lines 380-619  (purge, delete of one item)          *)
(*   "P10" src/unnamed/part_010       (auth gate, RE-OPTIMIZE, WIPE)       *)
(* All three import optimizePrompt from src/services/geminiService.ts.     *)
(*                                                                         *)
(* Strings are sequences of atoms (words or phrases); "|" is an atom of    *)
(* its own.  Nullable values are sequences of length 0 or 1.               *)
(***************************************************************************)
EXTENDS Integers, Sequences, FiniteSets, TLC

VARIABLES
    variant,          \* which version of App is running
    phase,            \* position in the mount sequence, then "ready"
    pendingHistory,   \* setHistory queued by the mount effect, not yet rendered
    isAuthenticated,  \* "null" | "true" | "false"
    inputPrompt,      \* the textarea's text
    analysis,         \* <<>> or <<PromptAnalysis>>
    loading,          \* the busy flag
    error,            \* <<>> or <<message>>
    history,          \* the history state: [kind, elems]
    storage,          \* localStorage['orion_history']: [kind, elems]
    inflight,         \* optimizePrompt calls that have not settled
    now,              \* Date.now()
    requests,         \* number of optimizePrompt calls started so far
    crashed,          \* a render threw: the tree is unmounted
    removes,          \* number of deleteHistoryItem calls so far
    lastOp,           \* the last history/optimize operation and its input
    hasAistudio,      \* part_011: window.aistudio is present
    editorFocused,    \* part_011: the prompt textarea has the keyboard focus
    variables,        \* part_011 / part_006: the variables state (name -> value)
    call,             \* a service-layer function call: [fn, arg, ret]
    bench,            \* a two-call operation: its position and what it stored
    boot              \* the bootstrap's polling: its timer, counters, checks in flight

\* the state of the services and of the variable panel, which the three
\* versions of App above do not have
ext == <<hasAistudio, editorFocused, variables, call, bench, boot>>

vars == <<variant, phase, pendingHistory, isAuthenticated, inputPrompt,
          analysis, loading, error, history, storage, inflight, now,
          requests, crashed, removes, lastOp, ext>>

-----------------------------------------------------------------------------
(* Bounds *)

MaxInFlight == 2
MaxRequests == 2
MaxTicks == 2
MaxRemoves == 1

-----------------------------------------------------------------------------
(* Program constants *)

HistoryCap == 20
PreviewLen == 40
EllipsisLen == 3

-----------------------------------------------------------------------------
(* Values *)

Variants == {"A", "B", "P10"}
HasAuthGate(v) == v \in {"A", "P10"}

Null == <<>>
Some(x) == <<x>>

\* A text is known by a tag and its length.
UndefText == [tag |-> "undefined", len |-> 0]
UndefNum == -1

ShortPrompt == [tag |-> "short", len |-> 5]
Prompts == {ShortPrompt}

Min(a, b) == IF a < b THEN a ELSE b

\* String.prototype.trim() leaves nothing of a whitespace-only text.
IsBlank(t) == t.tag = "blank"

-----------------------------------------------------------------------------
(* Strings of the error channel: sequences of atoms *)

Pipe == "|"

\* The keywords of the classifier that occur in the lower-cased atom.
LowerKeywords(atom) ==
    CASE atom = "401" -> {"401"}
      [] atom = "api key" -> {"api key"}
      [] atom = "403" -> {"403"}
      [] atom = "429" -> {"429"}
      [] atom = "quota" -> {"quota"}
      [] atom = "503" -> {"503"}
      [] atom = "Failed to fetch" -> {"fetch"}
      [] atom = "fetch failed" -> {"fetch failed", "fetch"}
      [] atom = "AUTHENTICATION FAILED" -> {"auth"}
      [] atom = "AUTH FAILURE" -> {"auth"}
      [] atom = "AUTH_FAILURE" -> {"auth"}
      [] atom = "API Key is missing." -> {"api key"}
      [] atom = "API Key invalid or missing." -> {"api key"}
      [] atom = "Permission denied." -> {"permission denied"}
      [] atom = "Your API key may lack the required scope or the billing account might be inactive." -> {"api key"}
      [] atom = "Neural network capacity exceeded." -> {"network"}
      [] atom = "Content blocked by safety filters." -> {"blocked", "safety"}
      [] atom = "Revise input parameters to comply with safety guidelines." -> {"safety"}
      [] atom = "Verify network integrity and connection status." -> {"network"}
      [] atom = "Requested entity was not found." ->
            {"not found", "requested entity was not found"}
      [] atom = "A valid project API key with billing enabled is required for Gemini 3 Pro." ->
            {"api key"}
      [] atom = "unauthorized" -> {"unauthorized", "auth"}
      [] atom = "INVALID API KEY" -> {"api key"}
      [] atom = "does not look like a valid Google API Key." -> {"api key"}
      [] atom = "safety" -> {"safety"}
      [] atom = "network" -> {"network"}
      [] atom = "not found" -> {"not found"}
      [] OTHER -> {}

\* The case-sensitive needles of the catch blocks that occur in the atom.
ExactNeedles(atom) ==
    CASE atom = "Requested entity was not found." -> {"Requested entity was not found"}
      [] atom = "AUTH FAILURE" -> {"AUTH FAILURE"}
      [] atom = "AUTH_FAILURE" -> {"AUTH_FAILURE"}
      [] atom = "A valid project API key with billing enabled is required for Gemini 3 Pro." ->
            {"API key"}
      [] OTHER -> {}

\* msg.toLowerCase().includes(k) for some k of ks
LowerIncludesAny(msg, ks) ==
    \E i \in 1..Len(msg) : LowerKeywords(msg[i]) \cap ks # {}

\* msg.includes(needle), case-sensitive
Includes(msg, needle) ==
    \E i \in 1..Len(msg) : needle \in ExactNeedles(msg[i])

HasPipe(msg) == \E i \in 1..Len(msg) : msg[i] = Pipe

PipePositions(msg) == {i \in 1..Len(msg) : msg[i] = Pipe}

\* index of the first pipe (the message has one)
FirstPipe(msg) ==
    CHOOSE i \in PipePositions(msg) : \A j \in PipePositions(msg) : i <= j

\* msg.split("|")[0]
BeforeFirstPipe(msg) == SubSeq(msg, 1, FirstPipe(msg) - 1)

\* msg.split("|").slice(1).join("|")
AfterFirstPipe(msg) == SubSeq(msg, FirstPipe(msg) + 1, Len(msg))

\* msg.split("|")[1]: what lies between the first pipe and the second
SecondSegment(msg) ==
    LET rest == AfterFirstPipe(msg)
    IN  IF HasPipe(rest) THEN BeforeFirstPipe(rest) ELSE rest

-----------------------------------------------------------------------------
(* src/services/geminiService.ts *)

\* A thrown value: an Error with a message, or something else.
ErrorOf(msg) == [isError |-> TRUE, message |-> msg]
NonError == [isError |-> FALSE, message |-> <<>>]

\* handleGenAIError: never returns; the operator yields the message of the
\* Error it throws.
handleGenAIError(e) ==
    LET msg == e.message
        default == <<"An unexpected system malfunction occurred during processing.">>
    IN  IF ~e.isError
        THEN <<"SYSTEM ERROR", Pipe>> \o default
        ELSE IF LowerIncludesAny(msg, {"api key", "apikey", "401", "auth"})
        THEN <<"AUTHENTICATION FAILED", Pipe>> \o
             (IF HasPipe(msg) THEN SecondSegment(msg)
              ELSE <<"API Key invalid or missing.", "Check VITE_API_KEY settings.">>)
        ELSE IF LowerIncludesAny(msg, {"403", "permission denied"})
        THEN <<"ACCESS DENIED", Pipe, "Permission denied.",
               "Your API key may lack the required scope or the billing account might be inactive.">>
        ELSE IF LowerIncludesAny(msg, {"429", "quota"})
        THEN <<"QUOTA EXCEEDED", Pipe, "Rate limit reached.",
               "Please standby before retrying operation.">>
        ELSE IF LowerIncludesAny(msg, {"503", "overloaded"})
        THEN <<"SERVER OVERLOAD", Pipe, "Neural network capacity exceeded.",
               "Retrying in T-minus moments recommended.">>
        ELSE IF LowerIncludesAny(msg, {"safety", "blocked"})
        THEN <<"SAFETY PROTOCOL", Pipe, "Content blocked by safety filters.",
               "Revise input parameters to comply with safety guidelines.">>
        ELSE IF LowerIncludesAny(msg, {"fetch failed", "network"})
        THEN <<"CONNECTION LOST", Pipe, "Uplink to AI Core failed.",
               "Verify network integrity and connection status.">>
        ELSE IF LowerIncludesAny(msg, {"candidate"})
        THEN <<"GENERATION ERROR", Pipe,
               "Model failed to generate valid output for the given input parameters.",
               "The prompt may be too complex.">>
        ELSE IF HasPipe(msg)
        THEN BeforeFirstPipe(msg) \o <<Pipe>> \o AfterFirstPipe(msg)
        ELSE <<"SYSTEM ERROR", Pipe>> \o msg

\* What the classifier's title is for a thrown message.
TitleOf(thrown) == BeforeFirstPipe(thrown)

\* The faults the generative API (or getClient) raises inside the try block.
E401 == ErrorOf(<<"401", "invalid", "api key">>)
ENotFound == ErrorOf(<<"Requested entity was not found.">>)
EQuota == ErrorOf(<<"429", "quota", "exceeded">>)
EFetch == ErrorOf(<<"Failed to fetch">>)
EConfig == ErrorOf(<<"CONFIGURATION ERROR", Pipe, "API Key is missing.",
                     "Please add VITE_API_KEY to your environment variables.">>)
Faults == {E401, ENotFound, EQuota}

\* The object JSON.parse makes of the response text: absent fields read as
\* undefined.  Lists are known by their length.
ParsedObjects ==
    { [critique |-> [tag |-> "crit", len |-> 10],
       optimizedPrompt |-> [tag |-> "opt", len |-> 60],
       techniquesUsed |-> 2, grammarIssues |-> 1, score |-> 90],
      [critique |-> UndefText,
       optimizedPrompt |-> [tag |-> "opt", len |-> 8],
       techniquesUsed |-> 2, grammarIssues |-> UndefNum, score |-> UndefNum],
      [critique |-> [tag |-> "crit", len |-> 10],
       optimizedPrompt |-> UndefText,
       techniquesUsed |-> 2, grammarIssues |-> 0, score |-> 70] }

NoObject ==
    [critique |-> UndefText, optimizedPrompt |-> UndefText,
     techniquesUsed |-> UndefNum, grammarIssues |-> UndefNum, score |-> UndefNum]

\* response.text: empty, not JSON, the JSON literal null, or a JSON object
ResponseTexts ==
    { [kind |-> k, obj |-> NoObject] : k \in {"empty"} }
    \cup { [kind |-> "object", obj |-> o] : o \in ParsedObjects }

\* What one generateContent call does: raise a fault or return a text.
ApiOutcomes ==
    { [kind |-> "fault", err |-> f, text |-> [kind |-> "empty", obj |-> NoObject]]
        : f \in Faults }
    \cup { [kind |-> "text", err |-> NonError, text |-> t] : t \in ResponseTexts }

NoAnalysis ==
    [originalText |-> UndefText, critique |-> UndefText,
     optimizedPrompt |-> UndefText, techniquesUsed |-> UndefNum,
     grammarIssues |-> UndefNum, score |-> UndefNum]

Resolved(a) == [ok |-> TRUE, value |-> a, message |-> <<>>]
Rejected(m) == [ok |-> FALSE, value |-> NoAnalysis, message |-> m]

\* optimizePrompt: the settled promise for one API outcome.
optimizePrompt(prompt, outcome) ==
    IF outcome.kind = "fault"
    THEN Rejected(handleGenAIError(outcome.err))
    ELSE IF outcome.text.kind = "empty"
    THEN Rejected(handleGenAIError(
             ErrorOf(<<"GENERATION ERROR", Pipe, "Empty response from neural model.">>)))
    ELSE IF outcome.text.kind = "garbage"
    THEN Rejected(handleGenAIError(ErrorOf(<<"Unexpected token">>)))
    ELSE IF outcome.text.kind = "null"
    THEN Rejected(handleGenAIError(ErrorOf(<<"Cannot read properties of null">>)))
    ELSE LET result == outcome.text.obj
         IN  Resolved([originalText |-> prompt,
                       critique |-> result.critique,
                       optimizedPrompt |-> result.optimizedPrompt,
                       techniquesUsed |-> result.techniquesUsed,
                       grammarIssues |-> IF result.grammarIssues = UndefNum
                                         THEN 0 ELSE result.grammarIssues,
                       score |-> result.score])

-----------------------------------------------------------------------------
(* History items and their JSON form *)

\* Number.prototype.toString(): a string of digits, not a number
NumberToString(n) == [digits |-> n]

\* text.substring(0, 40) + dots; version A appends the dots always,
\* versions B and P10 only when the text is longer than 40 characters.
Preview(t, alwaysDots) ==
    [tag |-> t.tag,
     len |-> Min(t.len, PreviewLen)
             + (IF alwaysDots \/ t.len > PreviewLen THEN EllipsisLen ELSE 0)]

\* result.optimizedPrompt.substring(...) throws a TypeError on undefined
PreviewThrows(result) == result.optimizedPrompt = UndefText

NewItem(result, t, alwaysDots) ==
    [id |-> NumberToString(t),
     timestamp |-> t,
     originalPreview |-> Preview(result.originalText, alwaysDots),
     optimizedPreview |-> Preview(result.optimizedPrompt, alwaysDots),
     score |-> result.score,
     fullAnalysis |-> result]

\* Prepend without the slice: the history grows without limit.
PrependUnbounded(item, prev) == <<item>> \o prev

\* Prepend that pushes to the back instead of the front.
PrependAtBack(item, prev) ==
    LET all == prev \o <<item>>
    IN  SubSeq(all, 1, Min(Len(all), HistoryCap))

\* [newItem, ...prev].slice(0, 20)
Prepend(item, prev) ==
    LET all == <<item>> \o prev
    IN  SubSeq(all, 1, Min(Len(all), HistoryCap))

\* The filter with its test inverted: item.id === id.
FilterKeepOnly(elems, id) ==
    LET keep(it) == it.id = id
    IN  SelectSeq(elems, keep)

\* history.filter(item => item.id !== id)
FilterOut(elems, id) ==
    LET keep(it) == it.id # id
    IN  SelectSeq(elems, keep)

ItemKeys ==
    {"id", "timestamp", "originalPreview", "optimizedPreview", "score", "fullAnalysis"}
AnalysisKeys ==
    {"originalText", "critique", "optimizedPrompt", "techniquesUsed", "grammarIssues", "score"}
NumKeys == {"timestamp", "score", "techniquesUsed", "grammarIssues"}
TextKeys ==
    {"originalPreview", "optimizedPreview", "originalText", "critique", "optimizedPrompt"}

\* A serializer that leaves out every falsy property, not only undefined.
IsFalsy(k, v) ==
    IF k \in NumKeys THEN v = UndefNum \/ v = 0
    ELSE IF k \in TextKeys THEN v = UndefText \/ v.len = 0
    ELSE FALSE

IsUndefined(k, v) ==
    IF k \in NumKeys THEN v = UndefNum
    ELSE IF k \in TextKeys THEN v = UndefText
    ELSE FALSE

\* JSON.stringify of an object leaves out the properties that are undefined.
StringifyObject(o, keys) ==
    [k \in {kk \in keys : ~IsUndefined(kk, o[kk])} |-> o[k]]

StringifyItem(it) ==
    StringifyObject(
        [k \in ItemKeys |-> IF k = "fullAnalysis"
                            THEN StringifyObject(it[k], AnalysisKeys)
                            ELSE it[k]],
        ItemKeys)

\* JSON.stringify(history): the text kept in localStorage
JSONstringify(h) ==
    IF h.kind = "array" /\ Len(h.elems) > 0
    THEN [kind |-> "array",
          elems |-> [i \in 1..Len(h.elems) |-> StringifyItem(h.elems[i])]]
    ELSE [kind |-> h.kind, elems |-> <<>>]

\* Reading a property that the JSON object does not have yields undefined.
ReadKey(j, k) ==
    IF k \in DOMAIN j THEN j[k]
    ELSE IF k \in NumKeys THEN UndefNum ELSE UndefText

ParseItem(j) ==
    [k \in ItemKeys |-> IF k = "fullAnalysis"
                        THEN [a \in AnalysisKeys |-> ReadKey(j[k], a)]
                        ELSE ReadKey(j, k)]

\* JSON.parse throws a SyntaxError on a text that is not JSON.
ParseThrows(text) == text.kind = "unparseable"

\* JSON.parse(saved), for a text it accepts
JSONparse(text) ==
    IF text.kind = "array" /\ Len(text.elems) > 0
    THEN [kind |-> "array",
          elems |-> [i \in 1..Len(text.elems) |-> ParseItem(text.elems[i])]]
    ELSE [kind |-> text.kind, elems |-> <<>>]

EmptyHistory == [kind |-> "array", elems |-> <<>>]
Absent == [kind |-> "absent", elems |-> <<>>]

\* `if (saved)`: null and the empty string are falsy
Truthy(saved) == saved.kind \notin {"absent", "emptystring"}

\* Items an earlier session left in the store: ids 1..n, newest first.
SavedAnalysis ==
    [originalText |-> ShortPrompt,
     critique |-> [tag |-> "crit", len |-> 10],
     optimizedPrompt |-> [tag |-> "opt", len |-> 60],
     techniquesUsed |-> 2, grammarIssues |-> 0, score |-> 80]

SavedHistory(n) ==
    [kind |-> "array",
     elems |-> [i \in 1..n |-> NewItem(SavedAnalysis, n + 1 - i, FALSE)]]

SavedLengths == {HistoryCap}

\* What localStorage may hold under 'orion_history' when the page loads.
PersistedValues ==
    { Absent,
      [kind |-> "unparseable", elems |-> <<>>],
      [kind |-> "object", elems |-> <<>>],
      JSONstringify(EmptyHistory) }
    \cup { JSONstringify(SavedHistory(n)) : n \in SavedLengths }

\* This session's clock starts after the ids of the saved items.
StartTime == HistoryCap + 1

-----------------------------------------------------------------------------
(* The App component *)

EmptyPrompt == [tag |-> "blank", len |-> 0]

\* The main screen is rendered unless the auth gate or the boot screen is.
MainRendered(v, auth) == ~HasAuthGate(v) \/ auth = "true"

\* history.length / history.map in the render of the main screen throw a
\* TypeError when the state is not an array; no error boundary catches it.
RenderCrashes(v, auth, h) == MainRendered(v, auth) /\ h.kind # "array"

NoItem == NewItem(NoAnalysis, 0, FALSE)

NoOp ==
    [op |-> "none", item |-> NoItem, result |-> NoAnalysis,
     id |-> NumberToString(0), thrown |-> <<>>, loaded |-> Absent]

NoCall == [fn |-> "none", arg |-> <<>>, ret |-> <<>>]
NoBench == [op |-> "none"]
NoBoot == [timer |-> "none"]

\* no variable panel, no service call under test
ExtIdle ==
    /\ hasAistudio = FALSE
    /\ editorFocused = FALSE
    /\ variables = <<>>
    /\ call = NoCall
    /\ bench = NoBench
    /\ boot = NoBoot

Init ==
    /\ variant \in Variants
    /\ phase = "mount"
    /\ pendingHistory = Null
    /\ isAuthenticated = IF HasAuthGate(variant) THEN "null" ELSE "true"
    /\ inputPrompt = EmptyPrompt
    /\ analysis = Null
    /\ loading = FALSE
    /\ error = Null
    /\ history = EmptyHistory
    /\ storage \in PersistedValues
    /\ inflight = <<>>
    /\ now = StartTime
    /\ requests = 0
    /\ crashed = FALSE
    /\ removes = 0
    /\ lastOp = NoOp
    /\ ExtIdle

\* The mount effect's history part: read the store, queue setHistory.
MountLoad ==
    /\ phase = "mount"
    /\ pendingHistory' = IF Truthy(storage) /\ ~ParseThrows(storage)
                         THEN Some(JSONparse(storage))
                         ELSE Null
    /\ phase' = "persist"
    /\ lastOp' = [NoOp EXCEPT !.op = "getItem", !.loaded = storage]
    /\ UNCHANGED <<ext, variant, isAuthenticated, inputPrompt, analysis, loading,
                   error, history, storage, inflight, now, requests, crashed,
                   removes>>

\* The persist effect of the first commit: it sees the initial state [].
PersistOnMount ==
    /\ phase = "persist"
    /\ storage' = JSONstringify(history)
    /\ phase' = "flush"
    /\ UNCHANGED <<ext, variant, pendingHistory, isAuthenticated, inputPrompt,
                   analysis, loading, error, history, inflight, now, requests,
                   crashed, removes, lastOp>>

\* The render that the queued setHistory causes, and the persist effect
\* that follows it when the render did not throw.
MountFlush ==
    /\ phase = "flush"
    /\ LET h == IF pendingHistory = Null THEN history ELSE pendingHistory[1]
           crash == RenderCrashes(variant, isAuthenticated, h)
       IN  /\ history' = h
           /\ crashed' = crash
           /\ storage' = IF pendingHistory # Null /\ ~crash
                         THEN JSONstringify(h) ELSE storage
    /\ pendingHistory' = Null
    /\ phase' = "ready"
    /\ lastOp' = [lastOp EXCEPT !.op = "load"]
    /\ UNCHANGED <<ext, variant, isAuthenticated, inputPrompt, analysis, loading,
                   error, inflight, now, requests, removes>>

Running == phase = "ready" /\ ~crashed

\* The bootstrap check settles: hasSelectedApiKey's answer, or the fallback.
BootAuth(answer) ==
    /\ Running
    /\ HasAuthGate(variant)
    /\ isAuthenticated = "null"
    /\ isAuthenticated' = answer
    /\ crashed' = RenderCrashes(variant, answer, history)
    /\ UNCHANGED <<ext, variant, phase, pendingHistory, inputPrompt, analysis,
                   loading, error, history, storage, inflight, now, requests,
                   removes, lastOp>>

\* handleAuthenticate on the gate screen
handleAuthenticate(aistudio) ==
    /\ Running
    /\ HasAuthGate(variant)
    /\ isAuthenticated = "false"
    /\ IF aistudio
       THEN /\ isAuthenticated' = "true"
            /\ error' = IF variant = "A" THEN Null ELSE error
            /\ crashed' = RenderCrashes(variant, "true", history)
       ELSE /\ isAuthenticated' = isAuthenticated
            /\ error' = Some(IF variant = "A"
                             THEN <<"ENVIRONMENT_INCOMPATIBLE", Pipe,
                                    "O modulo de selecao de chaves nao esta disponivel neste navegador.">>
                             ELSE <<"AISTUDIO_NOT_READY", Pipe,
                                    "System core modules are still initializing.">>)
            /\ crashed' = crashed
    /\ UNCHANGED <<ext, variant, phase, pendingHistory, inputPrompt, analysis,
                   loading, history, storage, inflight, now, requests,
                   removes, lastOp>>

\* [Tentar Acesso Direto] on version A's gate screen
DirectAccess ==
    /\ Running
    /\ variant = "A"
    /\ isAuthenticated = "false"
    /\ isAuthenticated' = "true"
    /\ crashed' = RenderCrashes(variant, "true", history)
    /\ UNCHANGED <<ext, variant, phase, pendingHistory, inputPrompt, analysis,
                   loading, error, history, storage, inflight, now, requests,
                   removes, lastOp>>

OnMain == Running /\ MainRendered(variant, isAuthenticated)

\* the textarea's onChange
SetInputPrompt(p) ==
    /\ OnMain
    /\ analysis = Null
    /\ inputPrompt' = p
    /\ UNCHANGED <<ext, variant, phase, pendingHistory, isAuthenticated, analysis,
                   loading, error, history, storage, inflight, now, requests,
                   crashed, removes, lastOp>>

\* BACK_TO_INPUT / Return
CloseAnalysis ==
    /\ OnMain
    /\ analysis # Null
    /\ analysis' = Null
    /\ UNCHANGED <<ext, variant, phase, pendingHistory, isAuthenticated,
                   inputPrompt, loading, error, history, storage, inflight,
                   now, requests, crashed, removes, lastOp>>

\* The entries of the history list the user clicks: the first two and the
\* last.
ClickTargets(elems) == {j \in {1, 2, Len(elems)} : j \in 1..Len(elems)}

\* A click on an entry of the history list.
loadFromHistory(i) ==
    /\ OnMain
    /\ i \in 1..Len(history.elems)
    /\ analysis' = Some(history.elems[i].fullAnalysis)
    /\ inputPrompt' = IF variant = "B"
                      THEN history.elems[i].fullAnalysis.originalText
                      ELSE inputPrompt
    /\ UNCHANGED <<ext, variant, phase, pendingHistory, isAuthenticated, loading,
                   error, history, storage, inflight, now, requests, crashed,
                   removes, lastOp>>

\* Date.now() advances.  The clock is read only when a request settles, so
\* only the ticks that a pending request can observe are taken.
Tick ==
    /\ now < StartTime + MaxTicks
    /\ \E i \in 1..Len(inflight) : inflight[i].startedAt = now
    /\ now' = now + 1
    /\ UNCHANGED <<ext, variant, phase, pendingHistory, isAuthenticated,
                   inputPrompt, analysis, loading, error, history, storage,
                   inflight, requests, crashed, removes, lastOp>>

-----------------------------------------------------------------------------
(* Optimize requests *)

\* CyberButton: `disabled={isLoading}` is written before `{...props}`, so a
\* `disabled` prop passed by the caller replaces it.
CyberButtonDisabled(isLoading, hasDisabledProp, disabledProp) ==
    IF hasDisabledProp THEN disabledProp ELSE isLoading

\* The optimize button of the input screen: versions A and P10 pass
\* disabled={!inputPrompt.trim()}, version B passes no disabled prop.
OptimizeButtonDisabled ==
    CyberButtonDisabled(loading, variant \in {"A", "P10"}, IsBlank(inputPrompt))

\* handleOptimize up to its await; `shown` is the analysis state the caller
\* has set before the call.
handleOptimize(shown) ==
    /\ analysis' = shown
    /\ IF IsBlank(inputPrompt)
       THEN UNCHANGED <<loading, error, inflight, requests>>
       ELSE /\ Len(inflight) < MaxInFlight
            /\ requests < MaxRequests
            /\ loading' = TRUE
            /\ error' = Null
            /\ inflight' = Append(inflight, [prompt |-> inputPrompt, startedAt |-> now])
            /\ requests' = requests + 1
    /\ UNCHANGED <<ext, variant, phase, pendingHistory, isAuthenticated,
                   inputPrompt, history, storage, now, crashed,
                   removes, lastOp>>

\* a click on INITIATE_OPTIMIZATION / Refine
ClickOptimize ==
    /\ OnMain
    /\ analysis = Null
    /\ ~OptimizeButtonDisabled
    /\ handleOptimize(analysis)

\* a click on RE-OPTIMIZE: setAnalysis(null); handleOptimize()
ClickReOptimize ==
    /\ OnMain
    /\ variant \in {"A", "P10"}
    /\ analysis # Null
    /\ handleOptimize(Null)

RemoveAt(seq, i) == SubSeq(seq, 1, i - 1) \o SubSeq(seq, i + 1, Len(seq))

\* localStorage.setItem('orion_history', JSON.stringify(history)), the
\* effect that runs after every render in which history changed
PersistEffect(h) == JSONstringify(h)

\* The rest of handleOptimize, after the await: the request i settles with
\* what the API did.
SettleOptimize(i, outcome) ==
    /\ Running
    /\ i \in 1..Len(inflight)
    /\ now > inflight[i].startedAt
    /\ LET r == optimizePrompt(inflight[i].prompt, outcome)
           dots == variant = "A"
           threw == r.ok /\ PreviewThrows(r.value)
           typeError == <<"Cannot read properties of undefined">>
           errMsg == IF r.ok THEN typeError ELSE r.message
           item == NewItem(r.value, now, dots)
           deauth == /\ HasAuthGate(variant)
                     /\ \/ Includes(errMsg, "Requested entity was not found")
                        \/ Includes(errMsg, "AUTH FAILURE")
       IN  /\ analysis' = IF r.ok THEN Some(r.value) ELSE analysis
           /\ history' = IF r.ok /\ ~threw
                         THEN [history EXCEPT !.elems = Prepend(item, @)]
                         ELSE history
           /\ storage' = IF r.ok /\ ~threw THEN PersistEffect(history') ELSE storage
           /\ error' = IF r.ok /\ ~threw THEN error ELSE Some(errMsg)
           /\ isAuthenticated' = IF (~r.ok \/ threw) /\ deauth
                                 THEN "false" ELSE isAuthenticated
           /\ lastOp' = [op |-> IF ~r.ok THEN "rejected"
                                ELSE IF threw THEN "appendThrew" ELSE "append",
                         item |-> IF r.ok /\ ~threw THEN item ELSE NoItem,
                         result |-> r.value,
                         id |-> NumberToString(now),
                         thrown |-> r.message,
                         loaded |-> Absent]
    /\ loading' = FALSE
    /\ inflight' = RemoveAt(inflight, i)
    /\ UNCHANGED <<ext, variant, phase, pendingHistory, inputPrompt, now, requests,
                   crashed, removes>>

-----------------------------------------------------------------------------
(* History removal *)

IdsOf(elems) == {elems[i].id : i \in 1..Len(elems)}

\* The entries whose X the user clicks.
DeleteTargets(elems) == {elems[i].id : i \in ClickTargets(elems)}

\* deleteHistoryItem(e, id), version B
deleteHistoryItem(id) ==
    /\ OnMain
    /\ variant = "B"
    /\ removes < MaxRemoves
    /\ removes' = removes + 1
    /\ history' = [history EXCEPT !.elems = FilterOut(@, id)]
    /\ storage' = PersistEffect(history')
    /\ lastOp' = [NoOp EXCEPT !.op = "remove", !.id = id]
    /\ UNCHANGED <<ext, variant, phase, pendingHistory, isAuthenticated,
                   inputPrompt, analysis, loading, error, inflight, now,
                   requests, crashed>>

\* setHistory([]); localStorage.removeItem('orion_history'); then the
\* render with the new array and the persist effect after it.
ClearHistory ==
    /\ history' = EmptyHistory
    /\ LET afterRemoveItem == Absent
       IN  storage' = PersistEffect(history')
    /\ lastOp' = [NoOp EXCEPT !.op = "clear"]
    /\ UNCHANGED <<ext, variant, phase, pendingHistory, isAuthenticated,
                   inputPrompt, analysis, loading, error, inflight, now,
                   requests, crashed, removes>>

\* confirmPurge, version B; [PURGE] is disabled while the history is empty
confirmPurge ==
    /\ OnMain
    /\ variant = "B"
    /\ Len(history.elems) > 0
    /\ ClearHistory

\* WIPE_HISTORY, version P10
WipeHistory ==
    /\ OnMain
    /\ variant = "P10"
    /\ ClearHistory

-----------------------------------------------------------------------------

AbsentId == NumberToString(0)

Next ==
    \/ MountLoad
    \/ PersistOnMount
    \/ MountFlush
    \/ \E answer \in {"true", "false"} : BootAuth(answer)
    \/ \E aistudio \in BOOLEAN : handleAuthenticate(aistudio)
    \/ DirectAccess
    \/ \E p \in Prompts \cup {EmptyPrompt} : SetInputPrompt(p)
    \/ CloseAnalysis
    \/ \E i \in ClickTargets(history.elems) : loadFromHistory(i)
    \/ Tick
    \/ ClickOptimize
    \/ ClickReOptimize
    \/ \E i \in 1..Len(inflight) : \E outcome \in ApiOutcomes : SettleOptimize(i, outcome)
    \/ \E id \in DeleteTargets(history.elems) \cup {AbsentId} : deleteHistoryItem(id)
    \/ confirmPurge
    \/ WipeHistory

Spec == Init /\ [][Next]_vars

-----------------------------------------------------------------------------
(* Properties *)

\* The step in which a pending optimizePrompt call settles.
SettleStep == Len(inflight') < Len(inflight)

\* The step in which deleteHistoryItem runs.
RemoveStep == removes' = removes + 1

\* C1: at most one optimizePrompt request is in flight at any time.
SingleRequestInFlight == Len(inflight) <= 1

\* C2: the in-memory history never holds more than 20 items.
HistoryWithinCapacity ==
    history.kind = "array" => Len(history.elems) <= HistoryCap

\* C2 witness: an append onto a full history loaded from the store.
AppendOntoFullHistory ==
    /\ lastOp.op = "append"
    /\ Len(history.elems) = HistoryCap
    /\ history.elems[2].id = NumberToString(HistoryCap)
    /\ history.elems[1].timestamp > StartTime

\* C3: an append puts the new item at index 0, keeps the earlier items in
\* their order, and at capacity drops only the last (oldest) one.
AppendIsFrontPushThenTruncate ==
    [][ (SettleStep /\ lastOp'.op = "append") =>
          LET old == history.elems
              new == history'.elems
          IN  /\ Len(new) = Min(Len(old) + 1, HistoryCap)
              /\ new[1].fullAnalysis = lastOp'.result
              /\ new[1].timestamp = now
              /\ \A i \in 2..Len(new) : new[i] = old[i - 1] ]_vars

\* C3 witness: the 21st item is first and the 1st (id 1) has been evicted.
OldestEvicted ==
    /\ lastOp.op = "append"
    /\ Len(history.elems) = HistoryCap
    /\ history.elems[1] = lastOp.item
    /\ history.elems[HistoryCap].id = NumberToString(2)

Corrupt(saved) == saved.kind \in {"unparseable", "object"}

\* C4: after the load of a corrupt persisted value the history is empty and
\* nothing has thrown.
CorruptLoadYieldsEmptyHistory ==
    (lastOp.op = "load" /\ Corrupt(lastOp.loaded)) =>
        (history = EmptyHistory /\ ~crashed)

\* C24: during startup a persisted non-empty history is never overwritten
\* in the store: at every step between the mount effect's read and the
\* settled state the value under orion_history still deserializes to the
\* items saved before startup.
StartupKeepsPersistedHistory ==
    ( /\ lastOp.op = "getItem"
      /\ lastOp.loaded.kind = "array"
      /\ Len(lastOp.loaded.elems) > 0 )
    => JSONparse(storage) = JSONparse(lastOp.loaded)

\* C27: an optimize attempt that ends with error set leaves analysis and
\* history as they were: the step in which the request settles into the
\* catch branch changes neither the displayed analysis nor the history.
FailedAttemptLeavesNoTrace ==
    [][ ( /\ SettleStep
          /\ lastOp'.op \in {"rejected", "appendThrew"}
          /\ error' # Null )
        => /\ analysis' = analysis
           /\ history' = history ]_vars

\* C28: the loading flag is true exactly while at least one optimizePrompt
\* request is in flight.
LoadingIffRequestPending == loading <=> (Len(inflight) > 0)

\* C5: after clear the history is empty and the key is absent from the store.
ClearRemovesPersistedRecord ==
    lastOp.op = "clear" => (history = EmptyHistory /\ storage = Absent)

Before(elems, i, id) == Cardinality({j \in 1..(i - 1) : elems[j].id = id})

\* C7: remove(id) deletes the items with that id and no other, keeps the rest
\* in order, and changes nothing (and throws nothing) when the id is absent.
RemoveDeletesOnlyThatId ==
    [][ RemoveStep =>
          LET id == lastOp'.id
              old == history.elems
              new == history'.elems
          IN  /\ ~crashed'
              /\ \A i \in 1..Len(new) : new[i].id # id
              /\ Len(new) = Len(old) - Before(old, Len(old) + 1, id)
              /\ \A i \in 1..Len(old) :
                    old[i].id # id => new[i - Before(old, i, id)] = old[i]
              /\ (\A i \in 1..Len(old) : old[i].id # id) => new = old ]_vars

\* C7 witness: an item from the middle of a full history has been removed.
RemovedOneOfMany ==
    /\ lastOp.op = "remove"
    /\ lastOp.id = NumberToString(HistoryCap - 1)
    /\ Len(history.elems) = HistoryCap - 1
    /\ history.elems[1].id = NumberToString(HistoryCap)

\* C8: the ids of the history items are pairwise distinct.
HistoryIdsDistinct ==
    history.kind = "array" =>
        \A i, j \in 1..Len(history.elems) :
            i # j => history.elems[i].id # history.elems[j].id

\* C9: whenever optimizePrompt resolves with a result, analysis is that
\* result and exactly one item whose fullAnalysis is that result is prepended.
ResolvedResultIsShownAndRecorded ==
    [][ (SettleStep /\ lastOp'.op \in {"append", "appendThrew"}) =>
          /\ analysis' = Some(lastOp'.result)
          /\ Len(history'.elems) = Min(Len(history.elems) + 1, HistoryCap)
          /\ history'.elems[1].fullAnalysis = lastOp'.result
          /\ \A i \in 2..Len(history'.elems) :
                history'.elems[i] = history.elems[i - 1] ]_vars

\* The classifier's categories that call for re-authentication.
AuthFailureClass(thrown) == TitleOf(thrown) = <<"AUTHENTICATION FAILED">>
EntityNotFoundClass(thrown) == LowerIncludesAny(thrown, {"not found"})

\* C10: when an optimize call fails with an error classified as an
\* authentication failure or as entity-not-found, isAuthenticated is false
\* once the failure handler has run.
AuthClassFailureDeauthorizes ==
    [][ ( /\ SettleStep
          /\ HasAuthGate(variant)
          /\ lastOp'.op = "rejected"
          /\ AuthFailureClass(lastOp'.thrown) \/ EntityNotFoundClass(lastOp'.thrown) )
        => isAuthenticated' = "false" ]_vars

-----------------------------------------------------------------------------
(* Prompt texts with variable markers (src/unnamed/part_011, part_006) *)

\* A text is a sequence of atoms: a delimiter character, a blank, or a run
\* of characters of the class [A-Za-z0-9_].  A name is a sequence of runs.
IdentAtoms ==
    {"TOPIC", "topic", "AUDIENCE", "constructor", "MISSING_", "Summarize",
     "for", "Call", "cats", "dogs", "A", "a", "B"}
IsIdent(atom) == atom \in IdentAtoms

\* String.prototype.toLowerCase() of an atom
Lower(atom) ==
    CASE atom = "TOPIC" -> "topic"
      [] atom = "AUDIENCE" -> "audience"
      [] atom = "MISSING_" -> "missing_"
      [] atom = "Summarize" -> "summarize"
      [] atom = "Call" -> "call"
      [] atom = "A" -> "a"
      [] atom = "B" -> "b"
      [] OTHER -> atom

Syntaxes == {"[]", "{{}}", "<>"}
Opening(syn) ==
    CASE syn = "[]" -> <<"[">> [] syn = "{{}}" -> <<"{", "{">> [] syn = "<>" -> <<"<">>
Closing(syn) ==
    CASE syn = "[]" -> <<"]">> [] syn = "{{}}" -> <<"}", "}">> [] syn = "<>" -> <<">">>

\* the text of a marker
Marker(syn, name) == Opening(syn) \o name \o Closing(syn)

\* number of characters of an atom
AtomLen(atom) == IF IsIdent(atom) THEN 5 ELSE 1

RECURSIVE TextLen(_)
TextLen(toks) ==
    IF toks = <<>> THEN 0 ELSE AtomLen(Head(toks)) + TextLen(Tail(toks))

\* The textarea's value: tag "blank" when trim() leaves nothing of it.
Text(toks) ==
    [tag |-> IF \A i \in 1..Len(toks) : toks[i] = " " THEN "blank" ELSE "text",
     len |-> TextLen(toks),
     toks |-> toks]

\* the atom at position i, or the end of the text
At(toks, i) == IF i \in 1..Len(toks) THEN toks[i] ELSE "$end"

\* toks has piece at position s
HasAt(toks, s, piece) == \A k \in 1..Len(piece) : At(toks, s + k - 1) = piece[k]

\* [A-Z0-9_]+ at position s: the length of the run it takes (greedy)
RECURSIVE RunLen(_, _)
RunLen(toks, s) ==
    IF IsIdent(At(toks, s)) THEN 1 + RunLen(toks, s + 1) ELSE 0

\* one alternative of the marker pattern tried at position s
MatchSyntax(toks, s, syn) ==
    LET from == s + Len(Opening(syn))
        n == RunLen(toks, from)
    IN  IF HasAt(toks, s, Opening(syn)) /\ n >= 1 /\ HasAt(toks, from + n, Closing(syn))
        THEN [ok |-> TRUE, name |-> SubSeq(toks, from, from + n - 1),
              end |-> from + n + Len(Closing(syn)) - 1]
        ELSE [ok |-> FALSE, name |-> <<>>, end |-> s]

\* /\[([A-Z0-9_]+)\]|\{\{([A-Z0-9_]+)\}\}|<([A-Z0-9_]+)>/gi tried at s:
\* the alternatives in their order
MatchAt(toks, s) ==
    IF MatchSyntax(toks, s, "[]").ok THEN MatchSyntax(toks, s, "[]")
    ELSE IF MatchSyntax(toks, s, "{{}}").ok THEN MatchSyntax(toks, s, "{{}}")
    ELSE MatchSyntax(toks, s, "<>")

\* The regex.exec loop from lastIndex = i: match[1] || match[2] || match[3]
\* of every match, left to right.
RECURSIVE ExecLoop(_, _)
ExecLoop(toks, i) ==
    IF i > Len(toks) THEN <<>>
    ELSE LET m == MatchAt(toks, i)
         IN  IF m.ok THEN <<m.name>> \o ExecLoop(toks, m.end + 1)
             ELSE ExecLoop(toks, i + 1)

\* An array of all the matches, repeated names included.
ArrayOfAll(names) == names

\* Array.from(new Set(names)): insertion order, each value once
RECURSIVE ArrayFromSet(_)
ArrayFromSet(names) ==
    IF names = <<>> THEN <<>>
    ELSE LET front == ArrayFromSet(SubSeq(names, 1, Len(names) - 1))
             last == names[Len(names)]
         IN  IF \E i \in 1..Len(front) : front[i] = last
             THEN front ELSE Append(front, last)

\* detectedVars
detectedVars(text) == ArrayFromSet(ExecLoop(text.toks, 1))

\* A Record<string, string> is the sequence of its own properties
\* <<key, value>> in insertion order.  Reading a key the object does not
\* own falls through to Object.prototype.
PrototypeKeys == {<<"constructor">>}
ObjectFunction == <<"function Object() { [native code] }">>
Undefined == <<"undefined">>
Keys(obj) == [i \in 1..Len(obj) |-> obj[i][1]]
Owns(obj, k) == \E i \in 1..Len(obj) : obj[i][1] = k
Get(obj, k) ==
    IF Owns(obj, k) THEN obj[CHOOSE i \in 1..Len(obj) : obj[i][1] = k][2]
    ELSE IF k \in PrototypeKeys THEN ObjectFunction
    ELSE Undefined

\* obj[k] = v
Put(obj, k, v) ==
    IF Owns(obj, k)
    THEN [i \in 1..Len(obj) |-> IF obj[i][1] = k THEN <<k, v>> ELSE obj[i]]
    ELSE Append(obj, <<k, v>>)

\* v || ''
OrEmpty(v) == IF v = Undefined \/ v = <<>> THEN <<>> ELSE v

\* the effect on detectedVars: next[v] = prev[v] || '' for each detected v
RegenerateVariables(prev, names) ==
    [i \in 1..Len(names) |-> <<names[i], OrEmpty(Get(prev, names[i]))>>]

-----------------------------------------------------------------------------
(* src/unnamed/part_005, second file: the service that part_011 imports *)

\* null or undefined as the thrown value
Nullish == [isError |-> FALSE, message |-> <<>>, nullish |-> TRUE]
IsNullish(e) == "nullish" \in DOMAIN e

\* handleGenAIError of part_005 (lines 169-189): reads error.message of
\* whatever was thrown; for null or undefined that read throws a TypeError
\* out of the classifier itself.
handleGenAIErrorP5(e) ==
    LET message == IF e.message = <<>>
                   THEN <<"An unexpected malfunction occurred in the neural core.">>
                   ELSE e.message
    IN  IF IsNullish(e)
        THEN <<"Cannot read properties of null (reading 'message')">>
        ELSE IF LowerIncludesAny(message, {"requested entity was not found", "401",
                                           "api key", "invalid api key", "unauthorized"})
        THEN <<"AUTH_FAILURE", Pipe, "Security handshake failed.",
               "A valid project API key with billing enabled is required for Gemini 3 Pro.">>
        ELSE IF LowerIncludesAny(message, {"429", "quota"})
        THEN <<"QUOTA_EXCEEDED", Pipe, "Neural bandwidth exhausted.",
               "Please wait for the quota to reset.">>
        ELSE IF LowerIncludesAny(message, {"fetch"})
        THEN <<"NETWORK_DISRUPTION", Pipe,
               "Failed to establish a link with the Gemini backbone.",
               "Check your connectivity.">>
        ELSE <<"SYSTEM_ERROR", Pipe>> \o message

\* optimizePrompt of part_005 (lines 248-290)
optimizePromptP5(prompt, outcome) ==
    IF outcome.kind = "fault"
    THEN Rejected(handleGenAIErrorP5(outcome.err))
    ELSE IF outcome.text.kind = "empty"
    THEN Rejected(handleGenAIErrorP5(
             ErrorOf(<<"EMPTY_RESPONSE", Pipe,
                       "The model failed to generate a response text.">>)))
    ELSE LET result == outcome.text.obj
         IN  Resolved([originalText |-> prompt,
                       critique |-> result.critique,
                       optimizedPrompt |-> result.optimizedPrompt,
                       techniquesUsed |-> result.techniquesUsed,
                       grammarIssues |-> IF result.grammarIssues = UndefNum
                                         THEN 0 ELSE result.grammarIssues,
                       score |-> result.score])

-----------------------------------------------------------------------------
(* src/unnamed/part_011: App with the variable panel and Ctrl+Enter *)

\* SAMPLES.en: its bracketed parts hold a colon and a blank, which the
\* marker pattern does not accept.
Sample ==
    Text(<<"Write a short story about a robot who discovers music.", " ">>
         \o <<"[", "TONE", ":", " ", "Emotional", "]", " ">>
         \o <<"[", "LENGTH", ":", " ", "Short", "]">>)

\* What the user types into the editor.
EditorTexts ==
    { Text(<<>>),
      Text(<<"Summarize", " ">> \o Marker("[]", <<"TOPIC">>)),
      Text(<<"Summarize", " ">> \o Marker("[]", <<"TOPIC">>) \o <<" ", "for", " ">>
           \o Marker("{{}}", <<"AUDIENCE">>)),
      Text(<<"Call", " ">> \o Marker("<>", <<"constructor">>)) }

\* What the user types into a variable's input.
VariableValues == {<<>>, <<"cats">>}

\* the names the editor texts hold
VariableNames == {<<"TOPIC">>, <<"AUDIENCE">>, <<"constructor">>}

\* useMemo(() => ..., [inputPrompt]): detectedVars of the text in the editor
useMemo == [t \in EditorTexts \cup {Sample} |-> detectedVars(t)]

InitP11 ==
    /\ variant = "P11"
    /\ phase = "boot"
    /\ pendingHistory = Null
    /\ isAuthenticated = "true"
    /\ inputPrompt = Text(<<>>)
    /\ analysis = Null
    /\ loading = FALSE
    /\ error = Null
    /\ history = EmptyHistory
    /\ storage = Absent
    /\ inflight = <<>>
    /\ now = StartTime
    /\ requests = 0
    /\ crashed = FALSE
    /\ removes = 0
    /\ lastOp = NoOp
    /\ hasAistudio \in BOOLEAN
    /\ editorFocused = FALSE
    /\ variables = <<>>
    /\ call = NoCall
    /\ bench = NoBench
    /\ boot = NoBoot

\* what the part_011 component never touches
idleP11 == <<variant, pendingHistory, storage, crashed, removes, hasAistudio,
             call, bench, boot>>

\* The mount effect's init(): hasSelectedApiKey() settles.  (isKernelLive,
\* which only colours the Signal tile, is left out.)
initP11(hasKey) ==
    /\ phase = "boot"
    /\ phase' = "ready"
    /\ isAuthenticated' = IF hasAistudio
                          THEN (IF hasKey THEN "true" ELSE "false")
                          ELSE isAuthenticated
    /\ UNCHANGED <<idleP11, inputPrompt, analysis, loading, error, history,
                   inflight, now, requests, lastOp, editorFocused, variables>>

\* {!isAuthenticated && <div className="fixed inset-0 z-[100] ...">}: the
\* overlay covers the page, the page under it stays mounted.
OverlayShown == isAuthenticated = "false"

\* {analysis ? <AnalysisView/> : <... textarea ...>}
EditorMounted == analysis = Null

\* a click into the textarea
FocusEditor ==
    /\ ~OverlayShown
    /\ EditorMounted
    /\ ~loading
    /\ ~editorFocused
    /\ editorFocused' = TRUE
    /\ UNCHANGED <<idleP11, phase, isAuthenticated, inputPrompt, analysis,
                   loading, error, history, inflight, now, requests, lastOp,
                   variables>>

\* the textarea's onChange, then the effect on detectedVars
TypePrompt(t) ==
    /\ editorFocused
    /\ EditorMounted
    /\ t # inputPrompt
    /\ inputPrompt' = t
    /\ variables' = RegenerateVariables(variables, useMemo[t])
    /\ UNCHANGED <<idleP11, phase, isAuthenticated, analysis, loading, error,
                   history, inflight, now, requests, lastOp, editorFocused>>

\* loadSample
loadSample ==
    /\ ~OverlayShown
    /\ EditorMounted
    /\ ~loading
    /\ inputPrompt' = Sample
    /\ editorFocused' = TRUE
    /\ variables' = RegenerateVariables(variables, useMemo[Sample])
    /\ UNCHANGED <<idleP11, phase, isAuthenticated, analysis, loading, error,
                   history, inflight, now, requests, lastOp>>

\* a variable input's onChange: setVariables(prev => ({...prev, [v]: value}))
EditVariable(v, value) ==
    /\ ~OverlayShown
    /\ EditorMounted
    /\ \E i \in 1..Len(useMemo[inputPrompt]) : useMemo[inputPrompt][i] = v
    /\ variables' = Put(variables, v, value)
    /\ editorFocused' = FALSE
    /\ UNCHANGED <<idleP11, phase, isAuthenticated, inputPrompt, analysis,
                   loading, error, history, inflight, now, requests, lastOp>>

\* handleOptimize of part_011 up to its await; `focus` is where the
\* keyboard focus is once the event has been handled.
handleOptimizeP11(focus) ==
    /\ IF IsBlank(inputPrompt) \/ loading
       THEN UNCHANGED <<loading, error, inflight, requests>>
       ELSE /\ Len(inflight) < MaxInFlight
            /\ requests < MaxRequests
            /\ loading' = TRUE
            /\ error' = Null
            /\ inflight' = Append(inflight, [prompt |-> inputPrompt, startedAt |-> now])
            /\ requests' = requests + 1
    /\ editorFocused' = focus
    /\ UNCHANGED <<idleP11, phase, isAuthenticated, inputPrompt, analysis,
                   history, now, lastOp, variables>>

\* handleKeyDown with Ctrl+Enter (or Meta+Enter) in the textarea
handleKeyDown ==
    /\ editorFocused
    /\ EditorMounted
    /\ handleOptimizeP11(editorFocused)

\* a click on RUN_OPTIMIZATION: disabled={!inputPrompt.trim() || loading}
ClickRun ==
    /\ ~OverlayShown
    /\ EditorMounted
    /\ ~CyberButtonDisabled(loading, TRUE, IsBlank(inputPrompt) \/ loading)
    /\ handleOptimizeP11(FALSE)

\* the catch block's message: parts.length > 1 ? parts[1] : parts[0]
CatchMessageP11(errMessage) ==
    IF HasPipe(errMessage) THEN SecondSegment(errMessage) ELSE errMessage

\* The rest of handleOptimize of part_011, after the await.
SettleP11(outcome) ==
    /\ phase \in {"boot", "ready"}
    /\ Len(inflight) = 1
    /\ now > inflight[1].startedAt
    /\ LET r == optimizePromptP5(inflight[1].prompt, outcome)
           threw == r.ok /\ PreviewThrows(r.value)
           errMessage == IF r.ok
                         THEN <<"Cannot read properties of undefined (reading 'substring')">>
                         ELSE r.message
           item == NewItem(r.value, now, FALSE)
           failed == ~r.ok \/ threw
       IN  /\ analysis' = IF r.ok THEN Some(r.value) ELSE analysis
           /\ history' = IF failed THEN history
                         ELSE [history EXCEPT !.elems = Prepend(item, @)]
           /\ error' = IF failed THEN Some(CatchMessageP11(errMessage)) ELSE error
           /\ isAuthenticated' =
                 IF failed /\ (Includes(errMessage, "AUTH_FAILURE")
                               \/ Includes(errMessage, "API key"))
                 THEN "false" ELSE isAuthenticated
           /\ editorFocused' = (editorFocused /\ ~r.ok)
           /\ lastOp' = [op |-> IF ~r.ok THEN "rejected"
                                ELSE IF threw THEN "appendThrew" ELSE "append",
                         item |-> IF failed THEN NoItem ELSE item,
                         result |-> r.value,
                         id |-> NumberToString(now),
                         thrown |-> r.message,
                         loaded |-> Absent]
    /\ loading' = FALSE
    /\ inflight' = <<>>
    /\ UNCHANGED <<idleP11, phase, inputPrompt, now, requests, variables>>

\* handleOpenKeySelector, the overlay's button (checkConnection only feeds
\* the Signal tile)
handleOpenKeySelector ==
    /\ OverlayShown
    /\ hasAistudio
    /\ isAuthenticated' = "true"
    /\ UNCHANGED <<idleP11, phase, inputPrompt, analysis, loading, error,
                   history, inflight, now, requests, lastOp, editorFocused,
                   variables>>

\* a click on an entry of the history modal
OpenHistoryItem(i) ==
    /\ ~OverlayShown
    /\ i \in 1..Len(history.elems)
    /\ analysis' = Some(history.elems[i].fullAnalysis)
    /\ editorFocused' = FALSE
    /\ UNCHANGED <<idleP11, phase, isAuthenticated, inputPrompt, loading,
                   error, history, inflight, now, requests, lastOp, variables>>

\* AnalysisView's onBack
onBack ==
    /\ ~OverlayShown
    /\ analysis # Null
    /\ analysis' = Null
    /\ UNCHANGED <<idleP11, phase, isAuthenticated, inputPrompt, loading,
                   error, history, inflight, now, requests, lastOp,
                   editorFocused, variables>>

NextP11 ==
    \/ \E hasKey \in BOOLEAN : initP11(hasKey)
    \/ FocusEditor
    \/ \E t \in EditorTexts : TypePrompt(t)
    \/ loadSample
    \/ \E v \in VariableNames : \E value \in VariableValues : EditVariable(v, value)
    \/ handleKeyDown
    \/ ClickRun
    \/ Tick
    \/ \E outcome \in ApiOutcomes : SettleP11(outcome)
    \/ handleOpenKeySelector
    \/ \E i \in ClickTargets(history.elems) : OpenHistoryItem(i)
    \/ onBack

SpecP11 == InitP11 /\ [][NextP11]_vars

\* the own properties of a Record as a set of <<key, value>>
Entries(obj) == {obj[i] : i \in 1..Len(obj)}
KeySet(obj) == {obj[i][1] : i \in 1..Len(obj)}
NameSet(names) == {names[i] : i \in 1..Len(names)}

\* C18: once a change of the prompt has settled, the variables map holds
\* for each detected name its previous value if the name was already a key
\* and the empty string otherwise; its keys are the detected names, also
\* after a value has been edited.
VariablesFollowDetectedNames ==
    [][ /\ inputPrompt' # inputPrompt =>
             Entries(variables') =
                 { <<n, IF n \in KeySet(variables)
                        THEN (CHOOSE e \in Entries(variables) : e[1] = n)[2]
                        ELSE <<>> >> : n \in NameSet(detectedVars(inputPrompt')) }
        /\ KeySet(variables') = NameSet(detectedVars(inputPrompt')) ]_vars

\* The step in which an optimizePrompt call is issued.
RequestStep == Len(inflight') > Len(inflight)

\* C11: an optimizePrompt request is issued only while isAuthenticated is
\* true.
RequestOnlyWhileAuthenticated ==
    [][ RequestStep => isAuthenticated = "true" ]_vars

-----------------------------------------------------------------------------
(* The error classifier and the parsing of what it throws *)

\* handleGenAIError of src/unnamed/part_001 (lines 4-28)
handleGenAIErrorP1(e) ==
    LET msg == e.message
        default == <<"An unexpected malfunction occurred in the neural core.">>
    IN  IF ~e.isError
        THEN <<"SYSTEM ERROR", Pipe>> \o default
        ELSE IF LowerIncludesAny(msg, {"429", "quota"})
        THEN <<"QUOTA EXCEEDED", Pipe, "Neural bandwidth exhausted.",
               "Please wait for cool-down.">>
        ELSE IF LowerIncludesAny(msg, {"401", "api key", "auth"})
        THEN <<"AUTH FAILURE", Pipe, "Security handshake failed.",
               "Check environment credentials.">>
        ELSE IF HasPipe(msg)
        THEN BeforeFirstPipe(msg) \o <<Pipe>> \o AfterFirstPipe(msg)
        ELSE <<"SYSTEM ERROR", Pipe>> \o msg

\* handleGenAIError of src/unnamed/part_003 (lines 5-23): it reads
\* error.message of any thrown value
handleGenAIErrorP3(e) ==
    LET message == IF e.message = <<>>
                   THEN <<"An unexpected malfunction occurred in the neural core.">>
                   ELSE e.message
    IN  IF IsNullish(e)
        THEN <<"Cannot read properties of null (reading 'message')">>
        ELSE IF LowerIncludesAny(message, {"requested entity was not found", "401", "api key"})
        THEN <<"AUTH FAILURE", Pipe, "Security handshake failed.",
               "A project API key with billing enabled is required.">>
        ELSE IF LowerIncludesAny(message, {"429", "quota"})
        THEN <<"QUOTA EXCEEDED", Pipe, "Neural bandwidth exhausted.",
               "Please wait for cool-down.">>
        ELSE <<"SYSTEM ERROR", Pipe>> \o message

\* parseError (src/App.tsx:35-42) of a non-empty error string
parseError(err) ==
    IF HasPipe(err)
    THEN [title |-> BeforeFirstPipe(err), message |-> AfterFirstPipe(err)]
    ELSE [title |-> <<"SYSTEM ERROR">>, message |-> err]

\* part_011 shows the catch block's message under a fixed title
ShownByP11(err) == [title |-> <<"KERNEL_REPORT">>, message |-> CatchMessageP11(err)]

\* The versions of the classifier, with the file each one is in.
ClassifierVersions == {"geminiService", "part_001", "part_003", "part_005"}

Classify(version, e) ==
    CASE version = "geminiService" -> handleGenAIError(e)
      [] version = "part_001" -> handleGenAIErrorP1(e)
      [] version = "part_003" -> handleGenAIErrorP3(e)
      [] version = "part_005" -> handleGenAIErrorP5(e)

\* what the component that imports the version shows of the thrown message
Show(version, err) ==
    IF version = "part_005" THEN ShownByP11(err) ELSE parseError(err)

MaxAtoms == 2
MaxBody == 3

\* the sequences over S of length at most n
RECURSIVE SeqsUpTo(_, _)
SeqsUpTo(S, n) ==
    IF n = 0 THEN {<<>>}
    ELSE LET shorter == SeqsUpTo(S, n - 1)
         IN  shorter \cup {Append(q, a) : q \in shorter, a \in S}

ErrorAtoms ==
    {"401", "403", "429", "503", "safety", "network", "not found", "boom", Pipe,
     "Failed to fetch", "fetch failed"}
BodyAtoms == {"x", "api key", Pipe}
PipedTitles == {"boom", "AUTHENTICATION FAILED"}

\* T|b: a title, a pipe and a body that may hold further pipes
PipedMessages ==
    { <<t, Pipe>> \o b : t \in PipedTitles, b \in SeqsUpTo(BodyAtoms, MaxBody) }

\* What a catch block may hand to the classifier.
ThrownValues ==
    { ErrorOf(m) : m \in SeqsUpTo(ErrorAtoms, MaxAtoms) \cup PipedMessages }
    \cup {NonError, Nullish}

InitClassifier ==
    /\ variant = "none"
    /\ phase = "ready"
    /\ pendingHistory = Null
    /\ isAuthenticated = "true"
    /\ inputPrompt = EmptyPrompt
    /\ analysis = Null
    /\ loading = FALSE
    /\ error = Null
    /\ history = EmptyHistory
    /\ storage = Absent
    /\ inflight = <<>>
    /\ now = StartTime
    /\ requests = 0
    /\ crashed = FALSE
    /\ removes = 0
    /\ lastOp = NoOp
    /\ hasAistudio = FALSE
    /\ editorFocused = FALSE
    /\ variables = <<>>
    /\ bench = NoBench
    /\ boot = NoBoot
    /\ \E version \in ClassifierVersions : \E e \in ThrownValues :
          call = [fn |-> "handleGenAIError", version |-> version, arg |-> e,
                  ret |-> Null, shown |-> Null]

\* everything but the call under test
appVars == <<variant, phase, pendingHistory, isAuthenticated, inputPrompt,
             analysis, loading, error, history, storage, inflight, now,
             requests, crashed, removes, lastOp>>

\* the catch block calls handleGenAIError, which throws
ThrowClassified ==
    /\ call.fn = "handleGenAIError"
    /\ call.ret = Null
    /\ call' = [call EXCEPT !.ret = Some(Classify(call.version, call.arg))]
    /\ UNCHANGED <<appVars, hasAistudio, editorFocused, variables, bench, boot>>

\* the component shows the rejected promise's message
ShowError ==
    /\ call.fn = "handleGenAIError"
    /\ call.ret # Null
    /\ call.shown = Null
    /\ call' = [call EXCEPT !.shown = Some(Show(call.version, call.ret[1]))]
    /\ UNCHANGED <<appVars, hasAistudio, editorFocused, variables, bench, boot>>

NextClassifier == ThrowClassified \/ ShowError

SpecClassifier == InitClassifier /\ [][NextClassifier]_vars

\* The order of the rules, earliest first.
RuleOrder ==
    <<"auth", "access", "quota", "overload", "safety", "network", "notfound">>

RuleKeywords(rule) ==
    CASE rule = "auth" -> {"api key", "apikey", "401", "auth"}
      [] rule = "access" -> {"403", "permission denied"}
      [] rule = "quota" -> {"429", "quota"}
      [] rule = "overload" -> {"503", "overloaded"}
      [] rule = "safety" -> {"safety", "blocked"}
      [] rule = "network" -> {"fetch failed", "network"}
      [] rule = "notfound" -> {"404", "not found"}

\* the titles the versions give to a rule
RuleTitles(rule) ==
    CASE rule = "auth" -> {"AUTHENTICATION FAILED", "AUTH FAILURE", "AUTH_FAILURE"}
      [] rule = "access" -> {"ACCESS DENIED"}
      [] rule = "quota" -> {"QUOTA EXCEEDED", "QUOTA_EXCEEDED"}
      [] rule = "overload" -> {"SERVER OVERLOAD"}
      [] rule = "safety" -> {"SAFETY PROTOCOL"}
      [] rule = "network" -> {"CONNECTION LOST", "NETWORK_DISRUPTION"}
      [] rule = "notfound" -> {"ENTITY NOT FOUND"}

\* the rules a version has
VersionRules(version) ==
    CASE version = "geminiService" ->
            {"auth", "access", "quota", "overload", "safety", "network"}
      [] version = "part_001" -> {"auth", "quota"}
      [] version = "part_003" -> {"auth", "quota"}
      [] version = "part_005" -> {"auth", "quota", "network"}

MatchedRules(version, msg) ==
    {r \in VersionRules(version) : LowerIncludesAny(msg, RuleKeywords(r))}

EarliestRule(rules) ==
    RuleOrder[CHOOSE i \in 1..Len(RuleOrder) :
                /\ RuleOrder[i] \in rules
                /\ \A j \in 1..(i - 1) : RuleOrder[j] \notin rules]

Classified == call.fn = "handleGenAIError" /\ call.ret # Null

\* C12: a message that matches several rules gets the title of the earliest
\* of them in the order auth, access-denied, quota, overload, safety,
\* network, not-found.
FirstMatchWins ==
    ( /\ Classified
      /\ call.arg.isError
      /\ Cardinality(MatchedRules(call.version, call.arg.message)) >= 2 )
    => \E t \in RuleTitles(EarliestRule(MatchedRules(call.version, call.arg.message))) :
          TitleOf(call.ret[1]) = <<t>>

\* C13: whatever is thrown at it, the classifier throws a message of the
\* form TITLE|message with a non-empty title before the first pipe.
ThrowsTitledMessage ==
    Classified => (HasPipe(call.ret[1]) /\ FirstPipe(call.ret[1]) > 1)

\* every keyword of every version's rules
AllKeywords ==
    UNION {RuleKeywords(RuleOrder[i]) : i \in 1..Len(RuleOrder)}
    \cup {"candidate", "fetch", "requested entity was not found",
          "invalid api key", "unauthorized"}

\* T|b with a non-empty T and pipes inside b
HasPipedBody(msg) ==
    /\ HasPipe(msg)
    /\ FirstPipe(msg) > 1
    /\ HasPipe(AfterFirstPipe(msg))

\* C14: of an error string T|b whose body b holds pipes, the user is shown
\* the message b intact, and the title T where the classifier passes the
\* string through; this covers the classifier's auth branch, its
\* pass-through branch, parseError and the catch block of part_011.
BodyKeptIntact ==
    LET msg == call.arg.message
        keywordFree == ~LowerIncludesAny(msg, AllKeywords)
        authReuse == /\ call.version = "geminiService"
                     /\ LowerIncludesAny(msg, RuleKeywords("auth"))
    IN  ( /\ call.fn = "handleGenAIError"
          /\ call.version \in {"geminiService", "part_005"}
          /\ call.shown # Null
          /\ call.arg.isError
          /\ HasPipedBody(msg)
          /\ keywordFree \/ authReuse )
        => /\ call.shown[1].message = AfterFirstPipe(msg)
           /\ keywordFree /\ call.version = "geminiService"
                => call.shown[1].title = BeforeFirstPipe(msg)

\* the keywords of a failed connection
ConnectionKeywords == {"fetch", "fetch failed", "network"}

\* C23: a failure whose lower-cased message contains fetch or network and
\* matches no earlier rule is classified as a lost connection.
FetchOrNetworkIsConnectionLost ==
    ( /\ Classified
      /\ call.version \in {"geminiService", "part_005"}
      /\ call.arg.isError
      /\ LowerIncludesAny(call.arg.message, ConnectionKeywords)
      /\ ~LowerIncludesAny(call.arg.message, AllKeywords \ ConnectionKeywords) )
    => \E t \in RuleTitles("network") : TitleOf(call.ret[1]) = <<t>>

\* C21: an error that is already of the form TITLE|body and matches no
\* keyword rule reaches the user with that title and that body: the
\* classifier throws it as it is, neither with another title nor inside
\* another TITLE| prefix.
ClassifiedErrorPassesThrough ==
    LET msg == call.arg.message
    IN  ( /\ call.fn = "handleGenAIError"
          /\ call.shown # Null
          /\ call.arg.isError
          /\ HasPipe(msg)
          /\ FirstPipe(msg) > 1
          /\ ~LowerIncludesAny(msg, AllKeywords) )
        => /\ call.ret[1] = msg
           /\ call.shown[1].title = BeforeFirstPipe(msg)
           /\ call.shown[1].message = AfterFirstPipe(msg)

-----------------------------------------------------------------------------
(* replaceVariables (src/unnamed/part_006:7-15) and the detector as pure
   functions *)

\* the atoms of piece at position s, compared as the flag i compares them
HasAtIgnoringCase(toks, s, piece) ==
    \A k \in 1..Len(piece) : Lower(At(toks, s + k - 1)) = Lower(piece[k])

\* the marker of key that the pattern \[key\]|\{\{key\}\}|<key> matches at s
KeyMatchLen(toks, s, key) ==
    IF HasAtIgnoringCase(toks, s, Marker("[]", key)) THEN Len(Marker("[]", key))
    ELSE IF HasAtIgnoringCase(toks, s, Marker("{{}}", key)) THEN Len(Marker("{{}}", key))
    ELSE IF HasAtIgnoringCase(toks, s, Marker("<>", key)) THEN Len(Marker("<>", key))
    ELSE 0

\* result.replace(regex, val) with the flags g and i, from position i on
RECURSIVE ReplaceFrom(_, _, _, _)
ReplaceFrom(toks, i, key, val) ==
    IF i > Len(toks) THEN <<>>
    ELSE LET n == KeyMatchLen(toks, i, key)
         IN  IF n > 0 THEN val \o ReplaceFrom(toks, i + n, key, val)
             ELSE <<toks[i]>> \o ReplaceFrom(toks, i + 1, key, val)

\* `[MISSING_${key}]`
Sentinel(key) == <<"[", "MISSING_">> \o key \o <<"]">>

\* Object.entries(vars).forEach(...) from the entry i on
RECURSIVE ReplaceEntries(_, _, _)
ReplaceEntries(result, entries, i) ==
    IF i > Len(entries) THEN result
    ELSE LET key == entries[i][1]
             value == entries[i][2]
             val == IF value = <<>> THEN Sentinel(key) ELSE value
         IN  ReplaceEntries(ReplaceFrom(result, 1, key, val), entries, i + 1)

\* replaceVariables(text, vars)
replaceVariables(text, entries) == ReplaceEntries(text, entries, 1)

MaxPieces == 3

\* the pieces the texts are made of: markers, and what markers are made of
Pieces ==
    { Marker("[]", <<"A">>), Marker("{{}}", <<"A">>), Marker("<>", <<"A">>),
      Marker("[]", <<"a">>), Marker("[]", <<"B">>), Marker("{{}}", <<"B">>),
      <<" ">>, <<"[">>, <<"A">>, <<"]">> }

RECURSIVE Flatten(_)
Flatten(pieces) ==
    IF pieces = <<>> THEN <<>> ELSE Head(pieces) \o Flatten(Tail(pieces))

TemplateTexts == {Flatten(q) : q \in SeqsUpTo(Pieces, MaxPieces)}

\* what the user gives a variable: nothing, a word, a text with a marker
ReplaceValues == {<<>>, <<"cats">>, Marker("[]", <<"B">>)}

\* the maps over the names in their order, every choice of values
RECURSIVE MapsOver(_)
MapsOver(names) ==
    IF names = <<>> THEN {<<>>}
    ELSE {<<<<Head(names), v>>>> \o m : v \in ReplaceValues, m \in MapsOver(Tail(names))}

\* The maps replaceVariables is called with for a text: the maps of its
\* detected names, and the empty map.
VariableMaps(toks) == MapsOver(detectedVars(Text(toks))) \cup {<<>>}

InitTemplate ==
    /\ variant = "none"
    /\ phase = "ready"
    /\ pendingHistory = Null
    /\ isAuthenticated = "true"
    /\ inputPrompt = EmptyPrompt
    /\ analysis = Null
    /\ loading = FALSE
    /\ error = Null
    /\ history = EmptyHistory
    /\ storage = Absent
    /\ inflight = <<>>
    /\ now = StartTime
    /\ requests = 0
    /\ crashed = FALSE
    /\ removes = 0
    /\ lastOp = NoOp
    /\ hasAistudio = FALSE
    /\ editorFocused = FALSE
    /\ variables = <<>>
    /\ bench = NoBench
    /\ boot = NoBoot
    /\ \E toks \in TemplateTexts :
          \/ call = [fn |-> "detectedVars", arg |-> [text |-> toks, vars |-> <<>>],
                     ret |-> Null]
          \/ \E entries \in VariableMaps(toks) :
                call = [fn |-> "replaceVariables",
                        arg |-> [text |-> toks, vars |-> entries], ret |-> Null]

\* useMemo computes detectedVars for the text
ComputeDetectedVars ==
    /\ call.fn = "detectedVars"
    /\ call.ret = Null
    /\ call' = [call EXCEPT !.ret = Some(detectedVars(Text(call.arg.text)))]
    /\ UNCHANGED <<appVars, hasAistudio, editorFocused, variables, bench, boot>>

\* runBenchmark / the code tab call replaceVariables
CallReplaceVariables ==
    /\ call.fn = "replaceVariables"
    /\ call.ret = Null
    /\ call' = [call EXCEPT !.ret = Some(replaceVariables(call.arg.text, call.arg.vars))]
    /\ UNCHANGED <<appVars, hasAistudio, editorFocused, variables, bench, boot>>

NextTemplate == ComputeDetectedVars \/ CallReplaceVariables

SpecTemplate == InitTemplate /\ [][NextTemplate]_vars

\* the positions of the text where a marker begins, in any of the syntaxes
MarkerStarts(toks) == {s \in 1..Len(toks) : \E syn \in Syntaxes : MatchSyntax(toks, s, syn).ok}

\* the name of the marker that begins at s
NameAt(toks, s) ==
    (CHOOSE m \in {MatchSyntax(toks, s, syn) : syn \in Syntaxes} : m.ok).name

\* the first position where a marker of that name begins
FirstOccurrence(toks, name) ==
    CHOOSE s \in MarkerStarts(toks) :
        /\ NameAt(toks, s) = name
        /\ \A t \in MarkerStarts(toks) : NameAt(toks, t) = name => s <= t

DetectorReturned == call.fn = "detectedVars" /\ call.ret # Null

\* C15: the detector returns every name that occurs in a marker of the text
\* exactly once, in the order of the names' first occurrences, whichever of
\* the three syntaxes each occurrence is written in.
EachNameOnceInFirstOccurrenceOrder ==
    DetectorReturned =>
        LET toks == call.arg.text
            names == call.ret[1]
        IN  /\ {names[i] : i \in 1..Len(names)}
                 = {NameAt(toks, s) : s \in MarkerStarts(toks)}
            /\ \A i, j \in 1..Len(names) : i # j => names[i] # names[j]
            /\ \A i, j \in 1..Len(names) :
                  i < j => FirstOccurrence(toks, names[i]) < FirstOccurrence(toks, names[j])

\* a text that names B once and A in the three syntaxes, A first
NameInThreeSyntaxesDetected ==
    /\ DetectorReturned
    /\ call.arg.text = Marker("[]", <<"A">>) \o Marker("{{}}", <<"B">>) \o Marker("<>", <<"A">>)
    /\ call.ret = Some(<< <<"A">>, <<"B">> >>)

ReplaceReturned == call.fn = "replaceVariables" /\ call.ret # Null

\* The text with every marker occurrence replaced by what the function of gives for the
\* occurrence's name, everything else kept: one pass over the text.
RECURSIVE EachMarkerReplaced(_, _, _)
EachMarkerReplaced(toks, i, of) ==
    IF i > Len(toks) THEN <<>>
    ELSE IF i \in MarkerStarts(toks)
    THEN LET m == CHOOSE x \in {MatchSyntax(toks, i, syn) : syn \in Syntaxes} : x.ok
         IN  of[m.name] \o EachMarkerReplaced(toks, m.end + 1, of)
    ELSE <<toks[i]>> \o EachMarkerReplaced(toks, i + 1, of)

\* the map's keys are the detected names and every one has a value
FilledMapOfDetected(toks, entries) ==
    /\ Keys(entries) = detectedVars(Text(toks))
    /\ \A i \in 1..Len(entries) : entries[i][2] # <<>>

\* C16: for a map whose keys are the names detected in the text,
\* replaceVariables replaces every marker occurrence, in any syntax and any
\* casing, by the value mapped to that occurrence's key.
EveryOccurrenceGetsItsValue ==
    (ReplaceReturned /\ FilledMapOfDetected(call.arg.text, call.arg.vars)) =>
        LET toks == call.arg.text
            valueOf == [name \in {NameAt(toks, s) : s \in MarkerStarts(toks)}
                          |-> Get(call.arg.vars, name)]
        IN  call.ret[1] = EachMarkerReplaced(toks, 1, valueOf)

\* every marker's variable has an empty value or no value at all
NoMarkerHasValue(toks, entries) ==
    \A s \in MarkerStarts(toks) : OrEmpty(Get(entries, NameAt(toks, s))) = <<>>

\* String.prototype.toLowerCase() of a text
LowerText(toks) == [i \in 1..Len(toks) |-> Lower(toks[i])]

\* C17: replaceVariables puts [MISSING_<NAME>] in the place of every marker
\* whose variable has an empty or absent value, names that are not in the map
\* included (the empty map), and leaves the rest of the text as it is.  The
\* casing of NAME is left open.
MissingValuesGetSentinel ==
    (ReplaceReturned /\ NoMarkerHasValue(call.arg.text, call.arg.vars)) =>
        LET toks == call.arg.text
            sentinelOf == [name \in {NameAt(toks, s) : s \in MarkerStarts(toks)}
                             |-> Sentinel(name)]
        IN  LowerText(call.ret[1]) = LowerText(EachMarkerReplaced(toks, 1, sentinelOf))

\* the orders in which Object.keys may hand out the same entries
KeyOrders(entries) ==
    LET n == Len(entries)
    IN  {[i \in 1..n |-> entries[p[i]]] :
            p \in {q \in [1..n -> 1..n] : \A i, j \in 1..n : q[i] = q[j] => i = j}}

\* C29: substitution is simultaneous: what a value or a sentinel brings into
\* the text is not substituted again by a later key, so replaceVariables
\* returns the same text for every iteration order of the map's keys.
ResultIndependentOfKeyOrder ==
    ReplaceReturned =>
        \A entries \in KeyOrders(call.arg.vars) :
            replaceVariables(call.arg.text, entries) = call.ret[1]

-----------------------------------------------------------------------------
(* The parsing of the model's response: cleanJSONResponse
   (src/unnamed/part_005:192-207, src/unnamed/part_001:165-173) and the
   JSON.parse of src/services/geminiService.ts:159-163 *)

\* A response text is a sequence of atoms: the fence markers, JSON's
\* structural characters, a whole member "score":10, the key of a nested
\* object, the opening of a string member, the closing quote, blanks and
\* words.
\* the three backticks followed by json, and the three backticks
FenceJson == "FENCEjson"
Fence == "FENCE"
NumberMember == "\"score\":10"
NestedKey == "\"issue\":"
StringOpen == "\"critique\":\""
Quote == "\""
Whitespace == {" ", "\n"}

\* JSON text without the whitespace between its tokens; inString tells
\* whether position i lies in a string
RECURSIVE Tokens(_, _, _)
Tokens(toks, i, inString) ==
    IF i > Len(toks) THEN <<>>
    ELSE IF inString
    THEN <<toks[i]>> \o Tokens(toks, i + 1, toks[i] # Quote)
    ELSE IF toks[i] \in Whitespace THEN Tokens(toks, i + 1, FALSE)
    ELSE <<toks[i]>> \o Tokens(toks, i + 1, toks[i] = StringOpen)

\* the position of the quote that closes the string whose content starts at i
RECURSIVE ClosingQuote(_, _)
ClosingQuote(toks, i) ==
    IF i > Len(toks) THEN 0
    ELSE IF toks[i] = Quote THEN i ELSE ClosingQuote(toks, i + 1)

\* The grammar of a JSON object from position i: the position of its last
\* atom, 0 when there is no object at i
RECURSIVE ObjectEnd(_, _)
RECURSIVE MembersEnd(_, _)
MemberEnd(toks, i) ==
    IF At(toks, i) = NumberMember THEN i
    ELSE IF At(toks, i) = StringOpen THEN ClosingQuote(toks, i + 1)
    ELSE IF At(toks, i) = NestedKey THEN ObjectEnd(toks, i + 1)
    ELSE 0
MembersEnd(toks, i) ==
    LET e == MemberEnd(toks, i)
    IN  IF e = 0 THEN 0
        ELSE IF At(toks, e + 1) = "," THEN MembersEnd(toks, e + 2)
        ELSE e
ObjectEnd(toks, i) ==
    IF At(toks, i) # "{" THEN 0
    ELSE IF At(toks, i + 1) = "}" THEN i + 1
    ELSE LET e == MembersEnd(toks, i + 1)
         IN  IF e # 0 /\ At(toks, e + 1) = "}" THEN e + 1 ELSE 0

\* JSON.parse(text): the object, or a SyntaxError
JSONParse(toks) ==
    LET t == Tokens(toks, 1, FALSE)
    IN  IF t # <<>> /\ ObjectEnd(t, 1) = Len(t)
        THEN [ok |-> TRUE, value |-> t]
        ELSE [ok |-> FALSE, value |-> <<>>]

\* text.replace(/FENCEjson/g, '').replace(/FENCE/g, '')
RECURSIVE StripFences(_)
StripFences(toks) ==
    IF toks = <<>> THEN <<>>
    ELSE IF Head(toks) \in {FenceJson, Fence} THEN StripFences(Tail(toks))
    ELSE <<Head(toks)>> \o StripFences(Tail(toks))

\* text.match(/\{[\s\S]*\}/): from the first { to the last }
BraceSpan(toks) ==
    LET opens == {i \in 1..Len(toks) : toks[i] = "{"}
        closes == {i \in 1..Len(toks) : toks[i] = "}"}
    IN  IF opens = {} THEN Null
        ELSE LET first == CHOOSE i \in opens : \A j \in opens : i <= j
                 after == {i \in closes : i > first}
             IN  IF after = {} THEN Null
                 ELSE Some(SubSeq(toks, first, CHOOSE i \in after : \A j \in after : j <= i))

ParsingError == [ok |-> FALSE, value |-> <<>>]

\* cleanJSONResponse of part_005
cleanJSONResponseP5(text) ==
    LET direct == JSONParse(StripFences(text))
        match == BraceSpan(text)
    IN  IF direct.ok THEN direct
        ELSE IF match # Null /\ JSONParse(match[1]).ok THEN JSONParse(match[1])
        ELSE ParsingError

\* cleanJSONResponse of part_001
cleanJSONResponseP1(text) ==
    LET direct == JSONParse(StripFences(text))
    IN  IF direct.ok THEN direct ELSE ParsingError

ParserVersions == {"geminiService", "part_001", "part_005"}

\* what each version's optimizePrompt makes of a non-empty response.text
ParseResponse(version, text) ==
    CASE version = "geminiService" -> JSONParse(text)
      [] version = "part_001" -> cleanJSONResponseP1(text)
      [] version = "part_005" -> cleanJSONResponseP5(text)

MaxMembers == 2

StringContents == {<<"cats">>, <<"use", " ", Fence, "code", Fence>>, <<"{", "x", "}">>}

Members ==
    {<<NumberMember>>, <<NestedKey, "{", NumberMember, "}">>}
        \cup {<<StringOpen>> \o c \o <<Quote>> : c \in StringContents}

RECURSIVE JoinMembers(_)
JoinMembers(ms) ==
    IF ms = <<>> THEN <<>>
    ELSE IF Len(ms) = 1 THEN ms[1]
    ELSE ms[1] \o <<",">> \o JoinMembers(Tail(ms))

\* the JSON objects the model answers with
Objects == {<<"{">> \o JoinMembers(ms) \o <<"}">> : ms \in SeqsUpTo(Members, MaxMembers)}

\* prose without braces before and after, fences around
ProseBefore == {<<>>, <<"Sure!", " ">>}
ProseAfter == {<<>>, <<" ", "Hope that helps.">>}
FenceOpen == {<<>>, <<FenceJson, "\n">>, <<Fence, "\n">>}
Wrapped(before, open, obj, after) ==
    before \o open \o obj \o (IF open = <<>> THEN <<>> ELSE <<"\n", Fence>>) \o after

\* texts that hold no object
NoJson == {<<"not json at all">>, <<"{", NumberMember>>, <<FenceJson, "\n", Fence>>}

InitParser ==
    /\ variant = "none"
    /\ phase = "ready"
    /\ pendingHistory = Null
    /\ isAuthenticated = "true"
    /\ inputPrompt = EmptyPrompt
    /\ analysis = Null
    /\ loading = FALSE
    /\ error = Null
    /\ history = EmptyHistory
    /\ storage = Absent
    /\ inflight = <<>>
    /\ now = StartTime
    /\ requests = 0
    /\ crashed = FALSE
    /\ removes = 0
    /\ lastOp = NoOp
    /\ hasAistudio = FALSE
    /\ editorFocused = FALSE
    /\ variables = <<>>
    /\ bench = NoBench
    /\ boot = NoBoot
    /\ \E version \in ParserVersions :
          \/ \E obj \in Objects, before \in ProseBefore, open \in FenceOpen,
                after \in ProseAfter :
                call = [fn |-> "parseResponse", version |-> version,
                        arg |-> [text |-> Wrapped(before, open, obj, after),
                                 object |-> Some(obj)],
                        ret |-> Null]
          \/ \E text \in NoJson :
                call = [fn |-> "parseResponse", version |-> version,
                        arg |-> [text |-> text, object |-> Null], ret |-> Null]

\* optimizePrompt parses response.text
ParseResponseText ==
    /\ call.fn = "parseResponse"
    /\ call.ret = Null
    /\ call' = [call EXCEPT !.ret = Some(ParseResponse(call.version, call.arg.text))]
    /\ UNCHANGED <<appVars, hasAistudio, editorFocused, variables, bench, boot>>

NextParser == ParseResponseText

SpecParser == InitParser /\ [][NextParser]_vars

\* C19: for a text that is a single JSON object, optionally wrapped in
\* fences and/or surrounded by prose without braces, the response parser
\* returns that object.
WrappedObjectIsParsed ==
    (call.fn = "parseResponse" /\ call.ret # Null /\ call.arg.object # Null) =>
        /\ call.ret[1].ok
        /\ call.ret[1].value = call.arg.object[1]

\* C30: when the raw response text parses directly as a JSON object,
\* cleanJSONResponse returns exactly the value of that direct parse: the
\* contents of its string fields are those of the text.
DirectParseIsReturned ==
    ( /\ call.fn = "parseResponse"
      /\ call.ret # Null
      /\ call.version \in {"part_001", "part_005"}
      /\ JSONParse(call.arg.text).ok )
    => call.ret[1] = JSONParse(call.arg.text)

-----------------------------------------------------------------------------
(* The operations made of two API calls: evaluatePerformance
   (src/services/geminiService.ts:201-264, src/unnamed/part_001:103-135)
   under handleAnalyze, and runBenchmark (src/unnamed/part_006:28-45) *)

MaxRuns == 2

\* the versions of evaluatePerformance, and the component with runBenchmark
EvaluateVersions == {"geminiService", "part_001"}
JointVersions == EvaluateVersions \cup {"part_006"}

\* What one generateContent call of a joint operation does: return a text,
\* return no text, return a text that is not JSON, or raise a fault.
Returned == [kind |-> "text", err |-> NonError]
ReturnedNothing == [kind |-> "nothing", err |-> NonError]
ReturnedMalformed == [kind |-> "malformed", err |-> NonError]
Raised(f) == [kind |-> "fault", err |-> f]
GenerationOutcomes == {Returned, ReturnedNothing} \cup {Raised(f) : f \in {E401, EQuota}}
JudgeOutcomes == GenerationOutcomes \cup {ReturnedMalformed}

NotCalled == [kind |-> "none", err |-> NonError]

\* genResponse.text || "No output." / "No response.";
\* response.text || "No output generated."
TextOr(version, outcome) ==
    IF outcome.kind = "text" THEN <<"response">>
    ELSE CASE version = "geminiService" -> <<"No output.">>
           [] version = "part_001" -> <<"No response.">>
           [] version = "part_006" -> <<"No output generated.">>

\* the judge's JSON once parsed: analysis.qualityScore
QualityScore(outcome) == IF outcome.kind = "text" THEN <<"90">> ELSE Undefined

\* what the service throws for a failure of one of its calls
ThrownBy(version, e) ==
    IF version = "part_006" THEN handleGenAIErrorP5(e) ELSE Classify(version, e)

InitJoint ==
    /\ variant = "none"
    /\ phase = "ready"
    /\ pendingHistory = Null
    /\ isAuthenticated = "true"
    /\ inputPrompt = EmptyPrompt
    /\ analysis = Null
    /\ loading = FALSE
    /\ error = Null
    /\ history = EmptyHistory
    /\ storage = Absent
    /\ inflight = <<>>
    /\ now = StartTime
    /\ requests = 0
    /\ crashed = FALSE
    /\ removes = 0
    /\ lastOp = NoOp
    /\ hasAistudio = FALSE
    /\ editorFocused = FALSE
    /\ variables = <<>>
    /\ call = NoCall
    /\ boot = NoBoot
    /\ \E version \in JointVersions :
          bench = [op |-> "idle", version |-> version, run |-> 0,
                   first |-> NotCalled, second |-> NotCalled,
                   result |-> Null, error |-> Null, busy |-> FALSE,
                   activeTab |-> "optimized"]

benchIdle == <<appVars, hasAistudio, editorFocused, variables, call, boot>>

\* handleAnalyze up to the first await of evaluatePerformance
handleAnalyze ==
    /\ bench.version \in EvaluateVersions
    /\ bench.op = "idle"
    /\ bench.run < MaxRuns
    /\ bench' = [bench EXCEPT !.op = "generation", !.run = @ + 1,
                              !.first = NotCalled, !.second = NotCalled,
                              !.busy = TRUE, !.error = Null]
    /\ UNCHANGED benchIdle

\* the generation call of evaluatePerformance settles
SettleGeneration(outcome) ==
    /\ bench.op = "generation"
    /\ IF outcome.kind = "fault"
       THEN bench' = [bench EXCEPT !.op = "idle", !.first = outcome, !.busy = FALSE,
                                   !.error = Some(ThrownBy(bench.version, outcome.err))]
       ELSE bench' = [bench EXCEPT !.op = "judge", !.first = outcome]
    /\ UNCHANGED benchIdle

\* the judge call settles: the rest of evaluatePerformance and of
\* handleAnalyze
SettleJudge(outcome) ==
    /\ bench.op = "judge"
    /\ LET emptyThrows == bench.version = "geminiService" /\ outcome.kind = "nothing"
           thrown ==
               IF outcome.kind = "fault" THEN Some(outcome.err)
               ELSE IF emptyThrows
               THEN Some(ErrorOf(<<"GENERATION ERROR", Pipe, "Judge failed to respond">>))
               ELSE IF outcome.kind = "malformed"
               THEN Some(ErrorOf(<<"Unexpected token">>))
               ELSE Null
           metrics == [generatedResponse |-> TextOr(bench.version, bench.first),
                       qualityScore |-> QualityScore(outcome),
                       run |-> bench.run, first |-> bench.first, second |-> outcome]
       IN  IF thrown # Null
           THEN bench' = [bench EXCEPT !.op = "idle", !.second = outcome, !.busy = FALSE,
                                       !.error = Some(ThrownBy(bench.version, thrown[1]))]
           ELSE bench' = [bench EXCEPT !.op = "idle", !.second = outcome, !.busy = FALSE,
                                       !.result = Some(metrics)]
    /\ UNCHANGED benchIdle

\* runBenchmark up to its await of Promise.all
runBenchmark ==
    /\ bench.version = "part_006"
    /\ bench.op = "idle"
    /\ bench.run < MaxRuns
    /\ bench' = [bench EXCEPT !.op = "previews", !.run = @ + 1,
                              !.first = NotCalled, !.second = NotCalled,
                              !.busy = TRUE, !.error = Null]
    /\ UNCHANGED benchIdle

\* One generatePreview call settles.  Promise.all rejects with the first
\* rejection (what the other call does then has no consumer) and fulfils
\* when both have fulfilled: the rest of runBenchmark.
SettlePreview(which, outcome) ==
    /\ bench.op = "previews"
    /\ outcome \in GenerationOutcomes
    /\ bench[which] = NotCalled
    /\ LET other == IF which = "first" THEN "second" ELSE "first"
           after == [bench EXCEPT ![which] = outcome]
           results == [original |-> TextOr(bench.version, after.first),
                       optimized |-> TextOr(bench.version, after.second),
                       run |-> bench.run, first |-> after.first, second |-> after.second]
       IN  IF outcome.kind = "fault"
           THEN bench' = [after EXCEPT !.op = "idle", !.busy = FALSE,
                                       !.error = Some(ThrownBy(bench.version, outcome.err))]
           ELSE IF bench[other] = NotCalled
           THEN bench' = after
           ELSE bench' = [after EXCEPT !.op = "idle", !.busy = FALSE,
                                       !.result = Some(results),
                                       !.activeTab = "benchmark"]
    /\ UNCHANGED benchIdle

NextJoint ==
    \/ handleAnalyze
    \/ \E outcome \in GenerationOutcomes : SettleGeneration(outcome)
    \/ \E outcome \in JudgeOutcomes : SettleJudge(outcome)
    \/ runBenchmark
    \/ \E which \in {"first", "second"} : \E outcome \in GenerationOutcomes :
          SettlePreview(which, outcome)

SpecJoint == InitJoint /\ [][NextJoint]_vars

\* C20: a joint operation of two API calls never stores a partial result:
\* the metrics of evaluatePerformance and the benchResults of runBenchmark
\* are stored only by a run both of whose calls returned a text; a call that
\* fails or returns nothing leaves nothing of that run stored.
NoPartialResult ==
    (bench.op # "none" /\ bench.result # Null) =>
        /\ bench.result[1].first.kind = "text"
        /\ bench.result[1].second.kind = "text"

-----------------------------------------------------------------------------
(* getClient (src/services/geminiService.ts:51-83) under the service
   functions that call it inside their try block *)

\* What an environment variable holds: nothing, the empty string, a
\* project id, a key.
NoKey == "undefined"
EnvValues == {NoKey, "", "gen-lang-client", "AIzaSyD4"}

\* !apiKey
Falsy(key) == key \in {NoKey, ""}

\* apiKey.startsWith("AIza")
StartsWithAIza(key) == key = "AIzaSyD4"

\* apiKey.substring(0, 8)
FirstEight(key) == IF key = "gen-lang-client" THEN "gen-lang" ELSE key

\* getClient: the key it settles on, or the error it throws
getClient(env) ==
    LET fromProcess == env.processApiKey
        fromMeta == IF ~Falsy(env.viteApiKey) THEN env.viteApiKey ELSE env.metaApiKey
        apiKey == IF Falsy(fromProcess) THEN fromMeta ELSE fromProcess
    IN  IF Falsy(apiKey)
        THEN [ok |-> FALSE, thrown |-> EConfig]
        ELSE IF ~StartsWithAIza(apiKey)
        THEN [ok |-> FALSE,
              thrown |-> ErrorOf(<<"INVALID API KEY", Pipe, "The provided key", FirstEight(apiKey),
                                   "does not look like a valid Google API Key.",
                                   "It must start with 'AIza'.">>)]
        ELSE [ok |-> TRUE, thrown |-> NonError]

\* optimizePrompt, generatePreview, evaluatePerformance
ServiceFunctions == {"optimizePrompt", "generatePreview", "evaluatePerformance"}

InitClient ==
    /\ variant = "none"
    /\ phase = "ready"
    /\ pendingHistory = Null
    /\ isAuthenticated = "true"
    /\ inputPrompt = EmptyPrompt
    /\ analysis = Null
    /\ loading = FALSE
    /\ error = Null
    /\ history = EmptyHistory
    /\ storage = Absent
    /\ inflight = <<>>
    /\ now = StartTime
    /\ requests = 0
    /\ crashed = FALSE
    /\ removes = 0
    /\ lastOp = NoOp
    /\ hasAistudio = FALSE
    /\ editorFocused = FALSE
    /\ variables = <<>>
    /\ bench = NoBench
    /\ boot = NoBoot
    /\ \E service \in ServiceFunctions :
       \E p \in EnvValues, v \in EnvValues, m \in EnvValues :
          call = [fn |-> "service", service |-> service,
                  env |-> [processApiKey |-> p, viteApiKey |-> v, metaApiKey |-> m],
                  ret |-> Null, shown |-> Null]

\* The service function runs: getClient inside the try block, then the API
\* call; whatever is thrown goes through handleGenAIError.
CallService(fault) ==
    /\ call.fn = "service"
    /\ call.ret = Null
    /\ LET client == getClient(call.env)
       IN  call' = [call EXCEPT !.ret =
                      IF ~client.ok
                      THEN Some([threw |-> TRUE, message |-> handleGenAIError(client.thrown)])
                      ELSE IF fault.isError
                      THEN Some([threw |-> TRUE, message |-> handleGenAIError(fault)])
                      ELSE Some([threw |-> FALSE, message |-> <<>>])]
    /\ UNCHANGED <<appVars, hasAistudio, editorFocused, variables, bench, boot>>

\* the component's catch stores the message and parseError splits it
ShowServiceError ==
    /\ call.fn = "service"
    /\ call.ret # Null
    /\ call.ret[1].threw
    /\ call.shown = Null
    /\ call' = [call EXCEPT !.shown = Some(parseError(call.ret[1].message))]
    /\ UNCHANGED <<appVars, hasAistudio, editorFocused, variables, bench, boot>>

NextClient ==
    \/ \E fault \in {NonError, E401, EQuota} : CallService(fault)
    \/ ShowServiceError

SpecClient == InitClient /\ [][NextClient]_vars

\* C22: with no credential string configured, or a malformed one, the error
\* a service function surfaces carries the title getClient raised, not the
\* title of another category.
ConfigurationErrorKeepsItsTitle ==
    ( /\ call.fn = "service"
      /\ call.shown # Null
      /\ ~getClient(call.env).ok )
    => call.shown[1].title = BeforeFirstPipe(getClient(call.env).thrown.message)

-----------------------------------------------------------------------------
(* Bootstrap: the polling for window.aistudio of src/App.tsx:78-105,
   src/unnamed/part_009:62-76 and src/unnamed/part_010:78-98 *)

MaxPending == 2

maxAttempts == 15
FallbackAfter == 10
MaxRetries == 5

BootVersions == {"A", "P9", "P10"}

\* The effect has no dependencies: the isAuthenticated its callbacks read
\* is the one of the first render.
ClosureIsAuthenticated == "null"

\* setIsAuthenticated(hasKey)
BoolState(b) == IF b THEN "true" ELSE "false"

\* attempts >= maxAttempts after never reaching the bound
AttemptsNeverExhausted(attempts) == FALSE

\* attempts >= maxAttempts
AttemptsExhausted(attempts) == attempts >= maxAttempts

InitBoot ==
    /\ variant \in BootVersions
    /\ phase = "boot"
    /\ pendingHistory = Null
    /\ isAuthenticated = "null"
    /\ inputPrompt = EmptyPrompt
    /\ analysis = Null
    /\ loading = FALSE
    /\ error = Null
    /\ history = EmptyHistory
    /\ storage = Absent
    /\ inflight = <<>>
    /\ now = StartTime
    /\ requests = 0
    /\ crashed = FALSE
    /\ removes = 0
    /\ lastOp = NoOp
    /\ hasAistudio \in BOOLEAN
    /\ editorFocused = FALSE
    /\ variables = <<>>
    /\ call = NoCall
    /\ bench = NoBench
    /\ \E hasKey \in BOOLEAN :
          boot = [timer |-> "running", attempts |-> 0, retries |-> 0, pending |-> 0,
                  hasKey |-> hasKey, answered |-> FALSE]

bootIdle == <<variant, phase, pendingHistory, inputPrompt, analysis, loading,
              error, history, storage, inflight, now, requests, crashed,
              removes, lastOp, editorFocused, variables, call, bench>>

\* the host page defines window.aistudio while the app is polling for it
AistudioAppears ==
    /\ boot.timer = "running"
    /\ ~hasAistudio
    /\ hasAistudio' = TRUE
    /\ UNCHANGED <<bootIdle, isAuthenticated, boot>>

\* src/App.tsx: the interval fires and check() runs up to its await; with
\* no window.aistudio the callback runs to its end.
TickA ==
    /\ variant = "A"
    /\ boot.timer = "running"
    /\ boot.attempts < maxAttempts + MaxPending
    /\ IF hasAistudio
       THEN /\ boot.pending < MaxPending
            /\ boot' = [boot EXCEPT !.pending = @ + 1]
            /\ UNCHANGED isAuthenticated
       ELSE LET attempts == boot.attempts + 1
            IN  /\ boot' = [boot EXCEPT !.attempts = attempts,
                                        !.timer = IF AttemptsExhausted(attempts)
                                                  THEN "cleared" ELSE @]
                /\ isAuthenticated' =
                      IF AttemptsExhausted(attempts) /\ ClosureIsAuthenticated = "null"
                      THEN "true" ELSE isAuthenticated
    /\ UNCHANGED <<bootIdle, hasAistudio>>

\* src/App.tsx: hasSelectedApiKey settles; the rest of check() and of the
\* interval's callback.
SettleCheckA(resolves) ==
    /\ variant = "A"
    /\ boot.pending > 0
    /\ LET found == resolves
           attempts == boot.attempts + 1
           fallback == AttemptsExhausted(attempts) /\ ClosureIsAuthenticated = "null"
       IN  /\ boot' = [boot EXCEPT !.pending = @ - 1,
                                   !.attempts = attempts,
                                   !.answered = @ \/ resolves,
                                   !.timer = IF found \/ AttemptsExhausted(attempts)
                                             THEN "cleared" ELSE @]
           /\ isAuthenticated' = IF fallback THEN "true"
                                 ELSE IF found THEN BoolState(boot.hasKey)
                                 ELSE isAuthenticated
    /\ UNCHANGED <<bootIdle, hasAistudio>>

\* part_009: the interval fires
TickP9 ==
    /\ variant = "P9"
    /\ boot.timer = "running"
    /\ IF hasAistudio
       THEN /\ boot.pending < MaxPending
            /\ boot' = [boot EXCEPT !.pending = @ + 1]
            /\ UNCHANGED isAuthenticated
       ELSE IF boot.attempts > FallbackAfter
       THEN /\ boot' = [boot EXCEPT !.attempts = @ + 1, !.timer = "cleared"]
            /\ isAuthenticated' = "true"
       ELSE /\ boot' = [boot EXCEPT !.attempts = @ + 1]
            /\ UNCHANGED isAuthenticated
    /\ UNCHANGED <<bootIdle, hasAistudio>>

\* part_009: hasSelectedApiKey settles; a rejection ends the callback
SettleCheckP9(resolves) ==
    /\ variant = "P9"
    /\ boot.pending > 0
    /\ IF resolves
       THEN /\ boot' = [boot EXCEPT !.pending = @ - 1, !.attempts = @ + 1,
                                    !.answered = TRUE, !.timer = "cleared"]
            /\ isAuthenticated' = BoolState(boot.hasKey)
       ELSE /\ boot' = [boot EXCEPT !.pending = @ - 1]
            /\ UNCHANGED isAuthenticated
    /\ UNCHANGED <<bootIdle, hasAistudio>>

\* part_010: checkWithRetry runs, at mount or from its timeout
checkWithRetry ==
    /\ variant = "P10"
    /\ boot.timer = "running"
    /\ IF hasAistudio
       THEN /\ boot' = [boot EXCEPT !.pending = @ + 1, !.timer = "cleared"]
            /\ UNCHANGED isAuthenticated
       ELSE IF boot.retries < MaxRetries
       THEN /\ boot' = [boot EXCEPT !.retries = @ + 1]
            /\ UNCHANGED isAuthenticated
       ELSE /\ boot' = [boot EXCEPT !.timer = "cleared"]
            /\ isAuthenticated' = "false"
    /\ UNCHANGED <<bootIdle, hasAistudio>>

\* part_010: hasSelectedApiKey settles
SettleCheckP10(resolves) ==
    /\ variant = "P10"
    /\ boot.pending > 0
    /\ boot' = [boot EXCEPT !.pending = @ - 1, !.answered = @ \/ resolves]
    /\ isAuthenticated' = IF resolves THEN BoolState(boot.hasKey) ELSE "false"
    /\ UNCHANGED <<bootIdle, hasAistudio>>

NextBoot ==
    \/ AistudioAppears
    \/ TickA
    \/ \E resolves \in BOOLEAN : SettleCheckA(resolves)
    \/ TickP9
    \/ \E resolves \in BOOLEAN : SettleCheckP9(resolves)
    \/ checkWithRetry
    \/ \E resolves \in BOOLEAN : SettleCheckP10(resolves)

SpecBoot == InitBoot /\ [][NextBoot]_vars

\* the timer is cleared and no check is in flight
BootEnded == boot.timer = "cleared" /\ boot.pending = 0

\* C25: if window.aistudio was there during bootstrap and hasSelectedApiKey
\* reported false, bootstrap ends with isAuthenticated = false, whatever the
\* timing of the ticks and of the checks; the fallback to true applies only
\* when the boundary was never found.
BootEndsUnauthenticated ==
    (BootEnded /\ boot.answered /\ ~boot.hasKey) => isAuthenticated = "false"

\* Timers fire and every hasSelectedApiKey call settles.
FairSpecBoot ==
    /\ SpecBoot
    /\ WF_vars(TickA)
    /\ WF_vars(\E resolves \in BOOLEAN : SettleCheckA(resolves))
    /\ WF_vars(TickP9)
    /\ WF_vars(\E resolves \in BOOLEAN : SettleCheckP9(resolves))
    /\ WF_vars(checkWithRetry)
    /\ WF_vars(\E resolves \in BOOLEAN : SettleCheckP10(resolves))

\* C26: bootstrap terminates in src/App.tsx and part_010: when every
\* hasSelectedApiKey call settles, isAuthenticated becomes non-null and the
\* timer is cleared and never fires again.
BootstrapTerminates ==
    (variant \in {"A", "P10"}) =>
        <>[](isAuthenticated # "null" /\ boot.timer = "cleared" /\ boot.pending = 0)

\* src/App.tsx ran out of attempts without ever finding window.aistudio
BootEndedByFallback ==
    /\ variant = "A"
    /\ BootEnded
    /\ ~hasAistudio
    /\ boot.attempts = maxAttempts
    /\ isAuthenticated = "true"

====
